---- MODULE Spec2Model ----
(***************************************************************************)
(* Model of the boot packing engine (utils/packingAlgorithm.ts): packItems *)
(* and its helpers.  A run of packItems is a state machine: Init is the    *)
(* state right after the locals of packItems are set up (boot space        *)
(* computed, items preprocessed and sorted, accumulators empty), each      *)
(* iteration of the per-item loop is one step, and Return builds the       *)
(* PackingResult.                                                          *)
(*                                                                         *)
(* Numbers: lengths are integer millimetres.  Percentages and the          *)
(* efficiency factor are kept as integers (percent), so the floating       *)
(* point values of the source are represented exactly: bootSpaceAvailable  *)
(* is carried as hundredths of mm^3 and volumeUtilization as a fraction.   *)
(* Math.round is round-half-up; the catalogue below uses dimensions whose  *)
(* compressed values are never within floating point error of a half.      *)
(* An absent opening dimension (undefined) is 0, which the source treats   *)
(* the same way (both are falsy).  Products beyond 32 bits are carried as  *)
(* two-limb numbers (Wide), so that the arithmetic stays exact.            *)
(***************************************************************************)
EXTENDS Integers, Sequences, FiniteSets, TLC

\* ---------------------------------------------------------------- bounds
MaxItems == 2
MaxIrregularities == 2
\* accepted packItemsInVehicle calls over the life of one mounted hook
MaxCalls == 2

\* ------------------------------------------------------- program constants
stepSize == 50
ClearanceMargin == 20
CompressionStep == 5
BaseEfficiency == 85
MinorEfficiency == 80
ModerateEfficiency == 75
SignificantEfficiency == 70

\* ------------------------------------------------------------- input data
Dims(l, w, h) == [length |-> l, width |-> w, height |-> h]

MkItem(n, l, w, h, r, cab, c, oc) ==
  [name |-> n, dimensions |-> Dims(l, w, h), rigidity |-> r,
   cabinSuitable |-> cab, compressibility |-> c, orientationConstraints |-> oc]

Catalog ==
  << MkItem("Small Suitcase", 400, 300, 200, "rigid", TRUE, 0, "any"),
     MkItem("Oversized Crate", 1200, 800, 600, "completely_rigid", FALSE, 0, "any"),
     MkItem("Flat Panel", 900, 900, 100, "rigid", FALSE, 0, "flat_only"),
     MkItem("Shoe Box", 100, 50, 100, "semi_rigid", TRUE, 0, "any"),
     MkItem("Duffel", 220, 100, 100, "flexible", TRUE, 20, "any"),
     MkItem("Soft Bag", 160, 120, 100, "very_flexible", FALSE, 20, "upright_only"),
     MkItem("Pillow", 120, 112, 60, "very_flexible", TRUE, 12, "upright_only"),
     MkItem("Trunk Box", 200, 150, 100, "rigid", FALSE, 0, "upright_only"),
     MkItem("Garment Bag", 240, 100, 80, "flexible", TRUE, 20, "flat_only"),
     MkItem("Foam Column", 50, 50, 200, "semi_rigid", FALSE, 0, "flat_only"),
     MkItem("Cushion", 52, 100, 100, "very_flexible", TRUE, 10, "upright_only"),
     MkItem("Bolster", 240, 104, 104, "flexible", FALSE, 20, "any") >>

MkBoot(l, w, h, ow, oh) ==
  [length |-> l, width |-> w, height |-> h, openingWidth |-> ow, openingHeight |-> oh]

LargeBoots ==
  { MkBoot(1000, 1000, 500, 0, 0),
    MkBoot(1000, 1000, 500, 800, 400) }

SmallBoots ==
  { MkBoot(200, 150, 100, 0, 0),
    MkBoot(200, 150, 100, 120, 0),
    MkBoot(200, 150, 100, 0, 90),
    MkBoot(200, 150, 100, 150, 100) }

Boots == LargeBoots \cup SmallBoots

Severities == {"minor", "moderate", "significant"}

SeqsUpTo(S, n) == UNION { [1..k -> S] : k \in 0..n }

IrregularityLists == SeqsUpTo([severity : Severities], MaxIrregularities)

\* the irregularity lists of the packing runs
PackingIrregularityLists ==
  { <<>>, << [severity |-> "significant"] >>,
    << [severity |-> "minor"], [severity |-> "moderate"] >> }

\* the vehicles of the packing runs: every boot without irregularities, the small
\* boot without opening dimensions also with irregularities
LargeVehicles == [bootMeasurements : LargeBoots, bootIrregularities : {<<>>}]

SmallVehicles ==
  [bootMeasurements : SmallBoots, bootIrregularities : {<<>>}]
    \cup [bootMeasurements : {MkBoot(200, 150, 100, 0, 0)},
          bootIrregularities : PackingIrregularityLists]

Vehicles == LargeVehicles \cup SmallVehicles

\* the vehicles of the runs that vary the irregularities
IrregularVehicles == [bootMeasurements : Boots, bootIrregularities : IrregularityLists]

CatalogItems == {Catalog[i] : i \in 1..Len(Catalog)}

ItemLists == SeqsUpTo(CatalogItems, MaxItems)

\* the items packed into the large boots: all of them fit the small boots' items many
\* times over, so only the items that differ from each other there are taken
LargeBootItems == {Catalog[i] : i \in {1, 2, 3, 4, 6, 9}}

LargeBootItemLists == SeqsUpTo(LargeBootItems, MaxItems)

\* no item, or one item
ShortItemLists == {<<>>} \cup {<<c>> : c \in CatalogItems}

\* ---------------------------------------------------------------- helpers
Min(a, b) == IF a <= b THEN a ELSE b
Max(a, b) == IF a >= b THEN a ELSE b

\* Math.round of the non-negative rational n / d
Round(n, d) == (2 * n + d) \div (2 * d)

\* exact non-negative numbers beyond 32 bits: value = hi * 10^6 + lo, 0 <= lo < 10^6
Wide(n) == [hi |-> n \div 1000000, lo |-> n % 1000000]
\* w * m for a small multiplier 0 <= m <= 100
Scale(w, m) ==
  [hi |-> w.hi * m + (w.lo * m) \div 1000000, lo |-> (w.lo * m) % 1000000]
WideLeq(a, b) == a.hi < b.hi \/ (a.hi = b.hi /\ a.lo <= b.lo)
WideMin(a, b) == IF WideLeq(a, b) THEN a ELSE b
WideZero == Wide(0)

RECURSIVE SelectSeqIdx(_, _, _)
\* Array.prototype.filter with the kept positions given as a set of indices
SelectSeqIdx(s, keep, i) ==
  IF i > Len(s) THEN <<>>
  ELSE IF i \in keep THEN <<s[i]>> \o SelectSeqIdx(s, keep, i + 1)
       ELSE SelectSeqIdx(s, keep, i + 1)

\* ------------------------------------------------- effective boot space
SeverityCap(sev) ==
  CASE sev = "minor" -> MinorEfficiency
    [] sev = "moderate" -> ModerateEfficiency
    [] sev = "significant" -> SignificantEfficiency
    [] OTHER -> 100

RECURSIVE EfficiencyLoopLastWins(_, _, _)
\* EfficiencyLoop assigning the cap without Math.min: the last irregularity wins
EfficiencyLoopLastWins(irrs, i, factor) ==
  IF i > Len(irrs) THEN factor
  ELSE EfficiencyLoopLastWins(irrs, i + 1, SeverityCap(irrs[i].severity))

RECURSIVE EfficiencyLoop(_, _, _)
EfficiencyLoop(irrs, i, factor) ==
  IF i > Len(irrs) THEN factor
  ELSE EfficiencyLoop(irrs, i + 1, Min(factor, SeverityCap(irrs[i].severity)))

calculateEffectiveBootSpace(v) ==
  LET bm == v.bootMeasurements
  IN [length |-> bm.length, width |-> bm.width, height |-> bm.height,
      volume |-> bm.length * bm.width * bm.height,
      efficiencyFactor |-> EfficiencyLoop(v.bootIrregularities, 1, BaseEfficiency),
      openingWidth |-> bm.openingWidth,
      openingHeight |-> bm.openingHeight,
      hasOpeningConstraints |-> (bm.openingWidth # 0 \/ bm.openingHeight # 0)]

calculateItemVolume(d) == d.length * d.width * d.height

getRigidityOrder(r) ==
  CASE r = "completely_rigid" -> 0
    [] r = "rigid" -> 1
    [] r = "semi_rigid" -> 2
    [] r = "flexible" -> 3
    [] r = "very_flexible" -> 4
    [] OTHER -> 5

\* ------------------------------------------------------------ orientations
AllOrientations(d) ==
  << Dims(d.length, d.width, d.height),
     Dims(d.width, d.length, d.height),
     Dims(d.height, d.width, d.length),
     Dims(d.length, d.height, d.width),
     Dims(d.width, d.height, d.length),
     Dims(d.height, d.length, d.width) >>

\* the flat test taken against the orientation's own length and width
FlatEnoughOwnFootprint(o, d) == 10 * o.height <= 6 * Max(o.length, o.width)

\* o.height <= Math.max(length, width) * 0.6
FlatEnough(o, d) == 10 * o.height <= 6 * Max(d.length, d.width)

\* the generator without the branches on the constraint
generateOrientationsUnconstrained(d, constraints) == AllOrientations(d)

\* lines 101-128
generateOrientations(d, constraints) ==
  IF constraints = "upright_only" THEN << Dims(d.length, d.width, d.height) >>
  ELSE IF constraints = "flat_only"
       THEN LET all == AllOrientations(d)
            IN SelectSeqIdx(all, {i \in 1..6 : FlatEnough(all[i], d)}, 1)
       ELSE AllOrientations(d)

\* ---------------------------------------------------------------- opening
effectiveOpeningWidth(bs) ==
  IF bs.openingWidth # 0 THEN bs.openingWidth - ClearanceMargin ELSE bs.width

\* effectiveOpeningHeight with the margin taken from the fallback as well
effectiveOpeningHeightMargin(bs) ==
  (IF bs.openingHeight # 0 THEN bs.openingHeight ELSE bs.height) - ClearanceMargin

effectiveOpeningHeight(bs) ==
  IF bs.openingHeight # 0 THEN bs.openingHeight - ClearanceMargin ELSE bs.height

\* canPassThroughOpening with "or" for "and"
canPassThroughOpeningEither(o, bs) ==
  IF ~bs.hasOpeningConstraints THEN TRUE
  ELSE \/ o.width <= effectiveOpeningWidth(bs)
       \/ o.height <= effectiveOpeningHeight(bs)

canPassThroughOpening(o, bs) ==
  IF ~bs.hasOpeningConstraints THEN TRUE
  ELSE /\ o.width <= effectiveOpeningWidth(bs)
       /\ o.height <= effectiveOpeningHeight(bs)

\* filterOrientationsForOpening that filters nothing
filterOrientationsKeepAll(os, bs) == os

filterOrientationsForOpening(os, bs) ==
  IF ~bs.hasOpeningConstraints THEN os
  ELSE SelectSeqIdx(os, {i \in 1..Len(os) : canPassThroughOpening(os[i], bs)}, 1)

\* ------------------------------------------------------------ compression
\* The dimension triple scaled by (1 - pct/100), each rounded
CompressDims(d, pct) ==
  Dims(Round(d.length * (100 - pct), 100),
       Round(d.width * (100 - pct), 100),
       Round(d.height * (100 - pct), 100))

applyCompression(item, compressionNeeded) ==
  LET actualCompression == Min(compressionNeeded, item.compressibility)
  IN IF actualCompression <= 0
     THEN [dimensions |-> item.dimensions, compressionApplied |-> 0]
     ELSE [dimensions |-> CompressDims(item.dimensions, actualCompression),
           compressionApplied |-> actualCompression]

\* Result of a search that found nothing (null)
NoCompression == [found |-> FALSE, dimensions |-> Dims(0, 0, 0), compressionApplied |-> 0]

RECURSIVE OpeningOrientationLoop(_, _, _, _)
\* inner loop of applyCompressionForOpening: first orientation clearing the opening
OpeningOrientationLoop(os, bs, i, actualCompression) ==
  IF i > Len(os) THEN NoCompression
  ELSE IF /\ os[i].width <= effectiveOpeningWidth(bs)
          /\ os[i].height <= effectiveOpeningHeight(bs)
       THEN [found |-> TRUE, dimensions |-> os[i], compressionApplied |-> actualCompression]
       ELSE OpeningOrientationLoop(os, bs, i + 1, actualCompression)

RECURSIVE OpeningCompressionLoopTo100(_, _, _)
\* OpeningCompressionLoop running up to 100 instead of the item's compressibility
OpeningCompressionLoopTo100(item, bs, compression) ==
  IF compression > 100 THEN NoCompression
  ELSE LET actualCompression == Min(compression, item.compressibility)
           compressedDimensions == CompressDims(item.dimensions, actualCompression)
           compressedOrientations ==
             generateOrientations(compressedDimensions, item.orientationConstraints)
           r == OpeningOrientationLoop(compressedOrientations, bs, 1, actualCompression)
       IN IF r.found THEN r
          ELSE OpeningCompressionLoopTo100(item, bs, compression + CompressionStep)

RECURSIVE OpeningCompressionLoop(_, _, _)
\* outer loop of applyCompressionForOpening over the compression levels
OpeningCompressionLoop(item, bs, compression) ==
  IF compression > item.compressibility THEN NoCompression
  ELSE LET actualCompression == Min(compression, item.compressibility)
           compressedDimensions == CompressDims(item.dimensions, actualCompression)
           compressedOrientations ==
             generateOrientations(compressedDimensions, item.orientationConstraints)
           r == OpeningOrientationLoop(compressedOrientations, bs, 1, actualCompression)
       IN IF r.found THEN r
          ELSE OpeningCompressionLoop(item, bs, compression + CompressionStep)

applyCompressionForOpening(item, bs) ==
  IF ~bs.hasOpeningConstraints \/ item.compressibility <= 0 THEN NoCompression
  ELSE OpeningCompressionLoop(item, bs, CompressionStep)

\* -------------------------------------------------------- position search
fitsInSpace(o, space, pos) ==
  /\ pos.x + o.length <= space.length
  /\ pos.y + o.width <= space.width
  /\ pos.z + o.height <= space.height

\* Overlap with the length forgotten in the second x test
OverlapLengthForgotten(o, pos, packed) ==
  /\ pos.x < packed.position.x + packed.orientation.length
  /\ pos.x > packed.position.x
  /\ pos.y < packed.position.y + packed.orientation.width
  /\ pos.y + o.width > packed.position.y
  /\ pos.z < packed.position.z + packed.orientation.height
  /\ pos.z + o.height > packed.position.z

Overlap(o, pos, packed) ==
  /\ pos.x < packed.position.x + packed.orientation.length
  /\ pos.x + o.length > packed.position.x
  /\ pos.y < packed.position.y + packed.orientation.width
  /\ pos.y + o.width > packed.position.y
  /\ pos.z < packed.position.z + packed.orientation.height
  /\ pos.z + o.height > packed.position.z

hasCollision(o, pos, packed) ==
  \E k \in 1..Len(packed) : Overlap(o, pos, packed[k])

Pos(x, y, z) == [x |-> x, y |-> y, z |-> z]

\* null position
NoPosition == [found |-> FALSE, position |-> Pos(0, 0, 0)]

\* the x loop started at the opening side of the boot
XStartAtOrigin(o, bs) == 0

\* loop bounds of findBestPosition
XStart(o, bs) == bs.length - o.length

\* YLimit for a loop written with "<" for "<="
YLimitStrict(o, bs) == bs.width - o.width - 1

YLimit(o, bs) == bs.width - o.width
ZLimit(o, bs) == bs.height - o.height

\* the x loop running one step too far
XInRangeOneStepMore(x) == x >= 0 - stepSize

\* loop condition of the x loop
XInRange(x) == x >= 0

RECURSIVE ScanX(_, _, _, _, _, _)
ScanX(o, bs, packed, x, y, z) ==
  IF ~XInRange(x) THEN NoPosition
  ELSE IF fitsInSpace(o, bs, Pos(x, y, z)) /\ ~hasCollision(o, Pos(x, y, z), packed)
       THEN [found |-> TRUE, position |-> Pos(x, y, z)]
       ELSE ScanX(o, bs, packed, x - stepSize, y, z)

RECURSIVE ScanY(_, _, _, _, _)
ScanY(o, bs, packed, y, z) ==
  IF y > YLimit(o, bs) THEN NoPosition
  ELSE LET r == ScanX(o, bs, packed, XStart(o, bs), y, z)
       IN IF r.found THEN r ELSE ScanY(o, bs, packed, y + stepSize, z)

RECURSIVE ScanZ(_, _, _, _)
ScanZ(o, bs, packed, z) ==
  IF z > ZLimit(o, bs) THEN NoPosition
  ELSE LET r == ScanY(o, bs, packed, 0, z)
       IN IF r.found THEN r ELSE ScanZ(o, bs, packed, z + stepSize)

findBestPosition(o, bs, packed) == ScanZ(o, bs, packed, 0)

\* ----------------------------------------------------------- preprocessing
WithMetrics(item) ==
  [name |-> item.name, dimensions |-> item.dimensions, rigidity |-> item.rigidity,
   cabinSuitable |-> item.cabinSuitable, compressibility |-> item.compressibility,
   orientationConstraints |-> item.orientationConstraints,
   volume |-> calculateItemVolume(item.dimensions),
   rigidityOrder |-> getRigidityOrder(item.rigidity),
   orientations |-> generateOrientations(item.dimensions, item.orientationConstraints)]

\* the comparator with the rigidity difference taken the other way round
CompareFlexibleFirst(a, b) ==
  IF b.volume # a.volume THEN b.volume - a.volume
  ELSE b.rigidityOrder - a.rigidityOrder

\* the comparator without its rigidity tie-break
CompareVolumeOnly(a, b) == b.volume - a.volume

\* the sort comparator: negative when a goes before b
Compare(a, b) ==
  IF b.volume # a.volume THEN b.volume - a.volume
  ELSE a.rigidityOrder - b.rigidityOrder

\* stable insertion of e into the sorted sequence s
InsertSorted(s, e) ==
  LET k == Cardinality({i \in 1..Len(s) : Compare(s[i], e) <= 0})
  IN SubSeq(s, 1, k) \o <<e>> \o SubSeq(s, k + 1, Len(s))

RECURSIVE StableSort(_, _, _)
StableSort(s, i, acc) ==
  IF i > Len(s) THEN acc ELSE StableSort(s, i + 1, InsertSorted(acc, s[i]))

preprocessItems(its) ==
  StableSort([i \in 1..Len(its) |-> WithMetrics(its[i])], 1, <<>>)

\* ------------------------------------------------- per-item search loops
NoPlacement ==
  [found |-> FALSE, orientation |-> Dims(0, 0, 0), position |-> Pos(0, 0, 0),
   compressionApplied |-> 0]

RECURSIVE OrientationLoop(_, _, _, _, _)
\* "for (const orientation of ...)": first orientation for which a position exists
OrientationLoop(os, bs, packed, k, applied) ==
  IF k > Len(os) THEN NoPlacement
  ELSE LET p == findBestPosition(os[k], bs, packed)
       IN IF p.found
          THEN [found |-> TRUE, orientation |-> os[k], position |-> p.position,
                compressionApplied |-> applied]
          ELSE OrientationLoop(os, bs, packed, k + 1, applied)

\* SpaceCompressionLoop trying the item's full compressibility only
SpaceCompressionFullOnly(item, bs, packed, compression) ==
  LET c == applyCompression(item, item.compressibility)
      compressedOrientations ==
        generateOrientations(c.dimensions, item.orientationConstraints)
      validCompressedOrientations ==
        filterOrientationsForOpening(compressedOrientations, bs)
  IN OrientationLoop(validCompressedOrientations, bs, packed, 1, c.compressionApplied)

RECURSIVE SpaceCompressionLoop(_, _, _, _)
\* "for (let compression = 5; compression <= compressibility; compression += 5)"
SpaceCompressionLoop(item, bs, packed, compression) ==
  IF compression > item.compressibility THEN NoPlacement
  ELSE LET c == applyCompression(item, compression)
           compressedOrientations ==
             generateOrientations(c.dimensions, item.orientationConstraints)
           validCompressedOrientations ==
             filterOrientationsForOpening(compressedOrientations, bs)
           r == OrientationLoop(validCompressedOrientations, bs, packed, 1,
                                c.compressionApplied)
       IN IF r.found THEN r
          ELSE SpaceCompressionLoop(item, bs, packed, compression + CompressionStep)

\* OpeningPlacement going on to other orientations and levels when the first
\* candidate has no position
OpeningPlacementRetrying(item, bs, packed) ==
  IF item.compressibility > 0
  THEN SpaceCompressionLoop(item, bs, packed, CompressionStep)
  ELSE NoPlacement

\* the opening branch: compression for the opening, then one position search
OpeningPlacement(item, bs, packed) ==
  IF item.compressibility > 0
  THEN LET compressionResult == applyCompressionForOpening(item, bs)
       IN IF compressionResult.found
          THEN LET p == findBestPosition(compressionResult.dimensions, bs, packed)
               IN IF p.found
                  THEN [found |-> TRUE, orientation |-> compressionResult.dimensions,
                        position |-> p.position,
                        compressionApplied |-> compressionResult.compressionApplied]
                  ELSE NoPlacement
          ELSE NoPlacement
  ELSE NoPlacement

\* PackedEntry recording the compressed copy of the item instead of the item
PackedEntryCompressedItem(item, pl, isCompressed) ==
  [item |-> [item EXCEPT !.dimensions = CompressDims(item.dimensions,
                                                      pl.compressionApplied)],
   position |-> pl.position, orientation |-> pl.orientation,
   compressed |-> isCompressed, compressionApplied |-> pl.compressionApplied]

\* lines 328-334, 355-361, 381-387: the entry pushed onto packedItems
PackedEntry(item, pl, isCompressed) ==
  [item |-> item, position |-> pl.position, orientation |-> pl.orientation,
   compressed |-> isCompressed, compressionApplied |-> pl.compressionApplied]

\* ------------------------------------------------------------------ state
\* The locals of a packItems call (lines 302-312):
\*   vehicle, items             the arguments
\*   processedItems             preprocessItems(items)
\*   idx                        position of the for-of loop in processedItems
\*   packedItems, unpackedItems, totalVolumeUsed,
\*   itemsRejectedByOpening, itemsRequiringCompression   the accumulators
\*   pc                         "loop" while in the per-item loop, "done" once returned
\*   result                     the PackingResult returned (NoResult before)
VARIABLES vehicle, items, processedItems, idx, packedItems, unpackedItems,
          totalVolumeUsed, itemsRejectedByOpening, itemsRequiringCompression,
          pc, result

\* The state of a mounted usePackingAlgorithm hook (part_003 lines 122-160):
\*   packingResult, isLoading, error   the three useState cells; null is <<>>, a
\*                                     value x is <<x>>
\*   timers            the pending setTimeout callbacks, each with the arguments of
\*                     its packItemsInVehicle call; equal delays fire in order
\*   pending           accepted packItemsInVehicle calls whose promise is not settled
\*   mockPackItems     the packItems the hook imports: the module's own function, or
\*                     the jest mock of part_005 with its queue of one-time outcomes
\*   packItemsCalls    how often the hook has invoked packItems
VARIABLES packingResult, isLoading, error, timers, pending, mockPackItems,
          packItemsCalls

hook == << packingResult, isLoading, error, timers, pending, mockPackItems,
           packItemsCalls >>

vars == << vehicle, items, processedItems, idx, packedItems, unpackedItems,
           totalVolumeUsed, itemsRejectedByOpening, itemsRequiringCompression,
           pc, result, hook >>

Null == <<>>
Some(x) == <<x>>

\* the hook imports packItems from the module itself
Unmocked == [mocked |-> FALSE, once |-> <<>>]

\* useState(null), useState(false), useState(null): the hook after its first render
Mounted(mocks) ==
  /\ packingResult = Null
  /\ isLoading = FALSE
  /\ error = Null
  /\ timers = <<>>
  /\ pending = 0
  /\ mockPackItems \in mocks
  /\ packItemsCalls = 0

bootSpace == calculateEffectiveBootSpace(vehicle)

NoResult ==
  [packedItems |-> <<>>, unpackedItems |-> <<>>,
   volumeUtilization |-> [num |-> WideZero, den |-> Wide(1)], bootSpaceUsed |-> 0,
   bootSpaceAvailable |-> [num |-> WideZero, den |-> 100],
   cabinOverflowSuggested |-> <<>>, warnings |-> <<>>]

\* packItems(v, its) was called and has set up its locals
Called(vs, lists) ==
  /\ vehicle \in vs
  /\ items \in lists
  /\ processedItems = preprocessItems(items)
  /\ idx = 1
  /\ packedItems = <<>>
  /\ unpackedItems = <<>>
  /\ totalVolumeUsed = 0
  /\ itemsRejectedByOpening = 0
  /\ itemsRequiringCompression = 0
  /\ pc = "loop"
  /\ result = NoResult

Init ==
  /\ \/ Called(LargeVehicles, LargeBootItemLists)
     \/ Called(SmallVehicles, ItemLists)
  /\ Mounted({Unmocked})

\* the runs that vary the irregularity list, on at most one item
InitIrregularities == Called(IrregularVehicles, ShortItemLists) /\ Mounted({Unmocked})

InLoop == pc = "loop" /\ idx <= Len(processedItems)

itemWithMetrics == processedItems[idx]

validOrientations == filterOrientationsForOpening(itemWithMetrics.orientations, bootSpace)

OpeningBranch == Len(validOrientations) = 0 /\ bootSpace.hasOpeningConstraints

Inputs == << vehicle, items, processedItems >>

\* the outcome of one pass through the loop body, lines 314-402
\* lines 321-326: the opening branch finds a compressed placement
OpeningCompressionWorks ==
  /\ InLoop
  /\ OpeningBranch
  /\ OpeningPlacement(itemWithMetrics, bootSpace, packedItems).found

\* lines 343-347: the opening branch ends with packed still false
OpeningCompressionFails ==
  /\ InLoop
  /\ OpeningBranch
  /\ ~OpeningPlacement(itemWithMetrics, bootSpace, packedItems).found

\* lines 350-353: some valid orientation has a position
FitsUncompressed ==
  /\ InLoop
  /\ ~OpeningBranch
  /\ OrientationLoop(validOrientations, bootSpace, packedItems, 1, 0).found

\* lines 369-379: packed is false, the item is compressible, a level has a position
SpaceCompressionWorks ==
  /\ InLoop
  /\ ~OpeningBranch
  /\ ~OrientationLoop(validOrientations, bootSpace, packedItems, 1, 0).found
  /\ itemWithMetrics.compressibility > 0
  /\ SpaceCompressionLoop(itemWithMetrics, bootSpace, packedItems,
                          CompressionStep).found

\* NothingWorks for compressible items only: an incompressible item that fits
\* nowhere has no outcome
NothingWorksCompressible ==
  /\ InLoop
  /\ ~OpeningBranch
  /\ ~OrientationLoop(validOrientations, bootSpace, packedItems, 1, 0).found
  /\ itemWithMetrics.compressibility > 0
  /\ ~SpaceCompressionLoop(itemWithMetrics, bootSpace, packedItems,
                           CompressionStep).found

\* line 399: packed is still false after the space branch
NothingWorks ==
  /\ InLoop
  /\ ~OpeningBranch
  /\ ~OrientationLoop(validOrientations, bootSpace, packedItems, 1, 0).found
  /\ \/ itemWithMetrics.compressibility <= 0
     \/ ~SpaceCompressionLoop(itemWithMetrics, bootSpace, packedItems,
                              CompressionStep).found

\* lines 321-339: no orientation clears the opening, compression makes one clear it
\* and a position is found
PackOpeningCompressed ==
  /\ OpeningCompressionWorks
  /\ LET pl == OpeningPlacement(itemWithMetrics, bootSpace, packedItems)
     IN /\ packedItems' = Append(packedItems, PackedEntry(itemWithMetrics, pl, TRUE))
        /\ totalVolumeUsed' = totalVolumeUsed + calculateItemVolume(pl.orientation)
  /\ itemsRequiringCompression' = itemsRequiringCompression + 1
  /\ idx' = idx + 1
  /\ UNCHANGED << Inputs, hook, unpackedItems, itemsRejectedByOpening, pc, result >>

\* RejectByOpening without its "continue": the item is pushed a second time at the
\* end of the loop body
RejectByOpeningNoContinue ==
  /\ InLoop
  /\ OpeningBranch
  /\ ~OpeningPlacement(itemWithMetrics, bootSpace, packedItems).found
  /\ unpackedItems' = Append(Append(unpackedItems, itemWithMetrics), itemWithMetrics)
  /\ itemsRejectedByOpening' = itemsRejectedByOpening + 1
  /\ idx' = idx + 1
  /\ UNCHANGED << Inputs, hook, packedItems, totalVolumeUsed, itemsRequiringCompression,
                  pc, result >>

\* lines 343-347: the opening branch did not pack the item
RejectByOpening ==
  /\ OpeningCompressionFails
  /\ unpackedItems' = Append(unpackedItems, itemWithMetrics)
  /\ itemsRejectedByOpening' = itemsRejectedByOpening + 1
  /\ idx' = idx + 1
  /\ UNCHANGED << Inputs, hook, packedItems, totalVolumeUsed, itemsRequiringCompression,
                  pc, result >>

\* lines 350-366: first valid orientation with a position, uncompressed
PackUncompressed ==
  /\ FitsUncompressed
  /\ LET pl == OrientationLoop(validOrientations, bootSpace, packedItems, 1, 0)
     IN /\ packedItems' = Append(packedItems, PackedEntry(itemWithMetrics, pl, FALSE))
        /\ totalVolumeUsed' = totalVolumeUsed + calculateItemVolume(pl.orientation)
  /\ idx' = idx + 1
  /\ UNCHANGED << Inputs, hook, unpackedItems, itemsRejectedByOpening,
                  itemsRequiringCompression, pc, result >>

\* PackSpaceCompressed entered without looking at the uncompressed attempt
PackSpaceCompressedEagerly ==
  /\ InLoop
  /\ ~OpeningBranch
  /\ itemWithMetrics.compressibility > 0
  /\ LET pl == SpaceCompressionLoop(itemWithMetrics, bootSpace, packedItems,
                                    CompressionStep)
     IN /\ pl.found
        /\ packedItems' = Append(packedItems, PackedEntry(itemWithMetrics, pl, TRUE))
        /\ totalVolumeUsed' = totalVolumeUsed + calculateItemVolume(pl.orientation)
  /\ itemsRequiringCompression' = itemsRequiringCompression + 1
  /\ idx' = idx + 1
  /\ UNCHANGED << Inputs, hook, unpackedItems, itemsRejectedByOpening, pc, result >>

\* PackSpaceCompressed adding the volume of the uncompressed item
PackSpaceCompressedItemVolume ==
  /\ InLoop
  /\ ~OpeningBranch
  /\ ~OrientationLoop(validOrientations, bootSpace, packedItems, 1, 0).found
  /\ itemWithMetrics.compressibility > 0
  /\ LET pl == SpaceCompressionLoop(itemWithMetrics, bootSpace, packedItems,
                                    CompressionStep)
     IN /\ pl.found
        /\ packedItems' = Append(packedItems, PackedEntry(itemWithMetrics, pl, TRUE))
        /\ totalVolumeUsed' = totalVolumeUsed + itemWithMetrics.volume
  /\ itemsRequiringCompression' = itemsRequiringCompression + 1
  /\ idx' = idx + 1
  /\ UNCHANGED << Inputs, hook, unpackedItems, itemsRejectedByOpening, pc, result >>

\* lines 369-396: no uncompressed orientation has a position, a compressed one has
PackSpaceCompressed ==
  /\ SpaceCompressionWorks
  /\ LET pl == SpaceCompressionLoop(itemWithMetrics, bootSpace, packedItems,
                                    CompressionStep)
     IN /\ packedItems' = Append(packedItems, PackedEntry(itemWithMetrics, pl, TRUE))
        /\ totalVolumeUsed' = totalVolumeUsed + calculateItemVolume(pl.orientation)
  /\ itemsRequiringCompression' = itemsRequiringCompression + 1
  /\ idx' = idx + 1
  /\ UNCHANGED << Inputs, hook, unpackedItems, itemsRejectedByOpening, pc, result >>

\* LeaveUnpacked with backtracking: the entry packed last is taken out again
LeaveUnpackedBacktracking ==
  /\ NothingWorks
  /\ unpackedItems' = Append(unpackedItems, itemWithMetrics)
  /\ packedItems' = SubSeq(packedItems, 1, Len(packedItems) - 1)
  /\ idx' = idx + 1
  /\ UNCHANGED << Inputs, hook, totalVolumeUsed, itemsRejectedByOpening,
                  itemsRequiringCompression, pc, result >>

\* lines 399-401: nothing worked in the space branch
LeaveUnpacked ==
  /\ NothingWorks
  /\ unpackedItems' = Append(unpackedItems, itemWithMetrics)
  /\ idx' = idx + 1
  /\ UNCHANGED << Inputs, hook, packedItems, totalVolumeUsed, itemsRejectedByOpening,
                  itemsRequiringCompression, pc, result >>

\* ----------------------------------------------------------------- result
\* a warning: its text, and for the two counted warnings the number N it starts with
Warning(text, n) == [text |-> text, n |-> n]

SignificantWarning ==
  Warning("Boot has significant irregularities that may affect actual packing capacity", 0)
RejectedWarning(n) ==
  Warning("item(s) could not fit through the boot opening despite fitting in the boot space", n)
CompressionWarning(n) ==
  Warning("item(s) required compression to fit through the boot opening", n)
LimitWarning ==
  Warning("Boot opening dimensions significantly limit packing capacity compared to internal space", 0)
OrderWarning ==
  Warning("Consider packing order - items placed deeper in the boot may be harder to access", 0)
TightWarning ==
  Warning("Some items require tight clearance margins that may be impractical in real-world use", 0)

When(cond, w) == IF cond THEN <<w>> ELSE <<>>

\* one warning for each significant irregularity
IrregularityWarningsEach(v) ==
  SelectSeqIdx([k \in 1..Len(v.bootIrregularities) |-> SignificantWarning],
               {k \in 1..Len(v.bootIrregularities) :
                  v.bootIrregularities[k].severity = "significant"}, 1)

\* lines 408-415
IrregularityWarnings(v) ==
  When(\E k \in 1..Len(v.bootIrregularities) :
          v.bootIrregularities[k].severity = "significant",
       SignificantWarning)

\* lines 440-451: first clearance loop
CloseToOpening(it, bs) ==
  /\ bs.openingWidth # 0 /\ bs.openingHeight # 0
  /\ LET minDimension == Min(it.dimensions.width, it.dimensions.height)
         maxOpening == Max(bs.openingWidth, bs.openingHeight)
     IN minDimension <= maxOpening + 30 /\ minDimension > maxOpening

\* lines 454-473: second clearance loop
wouldFitWithMinimalClearance(it, bs) ==
  /\ bs.openingWidth # 0 /\ bs.openingHeight # 0
  /\ LET os == generateOrientations(it.dimensions, it.orientationConstraints)
     IN \E k \in 1..Len(os) : /\ os[k].width <= bs.openingWidth - 5
                              /\ os[k].height <= bs.openingHeight - 5

\* lines 418-474
OpeningWarnings(bs, packed, unpacked, rejected, compressedCount) ==
  IF ~bs.hasOpeningConstraints THEN <<>>
  ELSE LET openingArea ==
             (IF bs.openingWidth # 0 THEN bs.openingWidth ELSE bs.width)
               * (IF bs.openingHeight # 0 THEN bs.openingHeight ELSE bs.height)
           bootCrossSection == bs.width * bs.height
       IN When(rejected > 0, RejectedWarning(rejected))
            \o When(compressedCount > 0, CompressionWarning(compressedCount))
            \o When(10 * openingArea < 6 * bootCrossSection, LimitWarning)
            \o When(Len(packed) > 1, OrderWarning)
            \o When(\E k \in 1..Len(unpacked) : CloseToOpening(unpacked[k], bs),
                    TightWarning)
            \o When(\E k \in 1..Len(unpacked) :
                       wouldFitWithMinimalClearance(unpacked[k], bs),
                    TightWarning)

\* the suggestion list without its filter: every unpacked item
cabinOverflowAllUnpacked(unpacked) == unpacked

\* line 405: unpackedItems.filter(item => item.cabinSuitable)
cabinOverflowSuggested(unpacked) ==
  SelectSeqIdx(unpacked, {k \in 1..Len(unpacked) : unpacked[k].cabinSuitable}, 1)

\* the utilization returned unclamped
NoClamp(vuNum, availNum) == vuNum

\* Math.min(volumeUtilization, 100), for volumeUtilization = vuNum / availNum
Clamp100(vuNum, availNum) == WideMin(vuNum, Scale(availNum, 100))

\* lines 483-493; fractions stand for the floating point values
BuildResult(v, bs, packed, unpacked, used, rejected, compressedCount) ==
  LET availNum == Scale(Wide(bs.volume), bs.efficiencyFactor) \* effectiveBootVolume * 100
  IN [packedItems |-> packed,
      unpackedItems |-> unpacked,
      volumeUtilization |->
        [num |-> Clamp100(Scale(Scale(Wide(used), 100), 100), availNum),
         den |-> availNum],
      bootSpaceUsed |-> used,
      bootSpaceAvailable |-> [num |-> availNum, den |-> 100],
      cabinOverflowSuggested |-> cabinOverflowSuggested(unpacked),
      warnings |-> IrregularityWarnings(v)
                     \o OpeningWarnings(bs, packed, unpacked, rejected, compressedCount)]

\* the loop is over: packItems returns
Return ==
  /\ pc = "loop"
  /\ idx > Len(processedItems)
  /\ result' = BuildResult(vehicle, bootSpace, packedItems, unpackedItems,
                           totalVolumeUsed, itemsRejectedByOpening,
                           itemsRequiringCompression)
  /\ pc' = "done"
  /\ UNCHANGED << Inputs, hook, idx, packedItems, unpackedItems, totalVolumeUsed,
                  itemsRejectedByOpening, itemsRequiringCompression >>

\* ------------------------------------------- packItems as one function
\* the locals of packItems before the loop, lines 308-312
NoLocals ==
  [packedItems |-> <<>>, unpackedItems |-> <<>>, totalVolumeUsed |-> 0,
   itemsRejectedByOpening |-> 0, itemsRequiringCompression |-> 0]

Packing(loc, item, pl, isCompressed) ==
  [loc EXCEPT !.packedItems = Append(@, PackedEntry(item, pl, isCompressed)),
              !.totalVolumeUsed = @ + calculateItemVolume(pl.orientation),
              !.itemsRequiringCompression = IF isCompressed THEN @ + 1 ELSE @]

\* lines 314-402: the locals after one pass through the loop body
LoopBody(bs, item, loc) ==
  LET valid == filterOrientationsForOpening(item.orientations, bs)
  IN IF Len(valid) = 0 /\ bs.hasOpeningConstraints
     THEN LET pl == OpeningPlacement(item, bs, loc.packedItems)
          IN IF pl.found THEN Packing(loc, item, pl, TRUE)
             ELSE [loc EXCEPT !.unpackedItems = Append(@, item),
                              !.itemsRejectedByOpening = @ + 1]
     ELSE LET pl == OrientationLoop(valid, bs, loc.packedItems, 1, 0)
          IN IF pl.found THEN Packing(loc, item, pl, FALSE)
             ELSE LET cl == IF item.compressibility > 0
                            THEN SpaceCompressionLoop(item, bs, loc.packedItems,
                                                      CompressionStep)
                            ELSE NoPlacement
                  IN IF cl.found THEN Packing(loc, item, cl, TRUE)
                     ELSE [loc EXCEPT !.unpackedItems = Append(@, item)]

\* lines 314-402: the locals after the first k processed items
RECURSIVE ItemLoop(_, _, _)
ItemLoop(bs, processed, k) ==
  IF k = 0 THEN NoLocals
  ELSE LoopBody(bs, processed[k], ItemLoop(bs, processed, k - 1))

\* lines 302-494: the value packItems returns
packItems(v, its) ==
  LET bs == calculateEffectiveBootSpace(v)
      loc == ItemLoop(bs, preprocessItems(its), Len(its))
  IN BuildResult(v, bs, loc.packedItems, loc.unpackedItems, loc.totalVolumeUsed,
                 loc.itemsRejectedByOpening, loc.itemsRequiringCompression)

Next ==
  \/ PackOpeningCompressed
  \/ RejectByOpening
  \/ PackUncompressed
  \/ PackSpaceCompressed
  \/ LeaveUnpacked
  \/ Return

Spec == Init /\ [][Next]_vars

SpecIrregularities == InitIrregularities /\ [][Next]_vars

\* ------------------------------------------------- usePackingAlgorithm hook
\* part_005 lines 33-44 and 46-60: the value the mocked packItems resolves to
mockItem == MkItem("Test Suitcase", 400, 300, 200, "rigid", TRUE, 0, "any")

mockPackingResult ==
  [packedItems |-> << [item |-> mockItem, position |-> Pos(0, 0, 0),
                       orientation |-> mockItem.dimensions, compressed |-> FALSE,
                       compressionApplied |-> 0] >>,
   unpackedItems |-> <<>>,
   volumeUtilization |-> [num |-> Wide(85), den |-> Wide(1)],
   bootSpaceUsed |-> 24000000,
   bootSpaceAvailable |-> [num |-> Wide(425000000), den |-> 1],
   cabinOverflowSuggested |-> <<>>,
   warnings |-> <<>>]

\* part_005 line 104: mockRejectedValueOnce(new Error('Packing failed'))
RejectsWithError == [isError |-> TRUE, message |-> "Packing failed"]
\* part_005 line 119: mockRejectedValueOnce('String error')
RejectsWithString == [isError |-> FALSE, message |-> "String error"]

\* the module's packItems, or the mock with at most one queued rejection in front
\* of mockResolvedValue(mockPackingResult)
Mocks ==
  {Unmocked} \cup
  [mocked : {TRUE}, once : {<<>>, <<RejectsWithError>>, <<RejectsWithString>>}]

SmallVehicle == [bootMeasurements |-> MkBoot(200, 150, 100, 0, 0),
                 bootIrregularities |-> <<>>]
NarrowVehicle == [bootMeasurements |-> MkBoot(200, 150, 100, 120, 0),
                  bootIrregularities |-> <<>>]
\* an object that is not a Vehicle: truthy, without bootMeasurements
NotAVehicle == [bootIrregularities |-> <<>>]

CallArg(v, its) == [vehicle |-> v, items |-> its]

\* the argument pairs packItemsInVehicle is called with
CallArgs ==
  { CallArg(Null, Some(<<Catalog[4]>>)),
    CallArg(Some(SmallVehicle), Null),
    CallArg(Some(SmallVehicle), Some(<<>>)),
    CallArg(Some(SmallVehicle), Some(<<Catalog[4]>>)),
    CallArg(Some(SmallVehicle), Some(<<Catalog[5]>>)),
    CallArg(Some(SmallVehicle), Some(<<Catalog[2]>>)),
    CallArg(Some(NarrowVehicle), Some(<<Catalog[6]>>)),
    CallArg(Some(NarrowVehicle), Some(<<Catalog[8]>>)),
    CallArg(Some(NotAVehicle), Some(<<Catalog[4]>>)) }

\* no packItems call is running: the locals of lines 302-312 do not exist
Idle ==
  /\ vehicle = SmallVehicle
  /\ items = <<>>
  /\ processedItems = <<>>
  /\ idx = 1
  /\ packedItems = <<>>
  /\ unpackedItems = <<>>
  /\ totalVolumeUsed = 0
  /\ itemsRejectedByOpening = 0
  /\ itemsRequiringCompression = 0
  /\ pc = "idle"
  /\ result = NoResult

InitHook == Idle /\ Mounted(Mocks)

Locals == << vehicle, items, processedItems, idx, packedItems, unpackedItems,
            totalVolumeUsed, itemsRejectedByOpening, itemsRequiringCompression,
            pc, result >>

\* Required without the length check: an empty list is accepted
RequiredAnyList(v, its) == v # Null /\ its # Null

\* part_003 line 132: !vehicle || !items || items.length === 0
Required(v, its) == v # Null /\ its # Null /\ Len(its[1]) > 0

\* part_003 lines 131-146: packItemsInVehicle up to its await
PackItemsInVehicle(v, its) ==
  /\ pc = "idle"
  /\ \/ /\ ~Required(v, its)
        /\ error' = Some("Vehicle and items are required")
        /\ UNCHANGED << packingResult, isLoading, timers, pending >>
     \/ /\ Required(v, its)
        /\ packItemsCalls + Len(timers) < MaxCalls
        /\ isLoading' = TRUE
        /\ error' = Null
        /\ timers' = Append(timers, CallArg(v[1], its[1]))
        /\ pending' = pending + 1
        /\ UNCHANGED packingResult
  /\ UNCHANGED << Locals, mockPackItems, packItemsCalls >>

\* part_002 lines 45-46: destructuring reads bootMeasurements.length of undefined
Throws(v) == "bootMeasurements" \notin DOMAIN v

\* part_003 lines 148 and 153: the await yields a value
Fulfilled(value) ==
  /\ packingResult' = Some(value)
  /\ isLoading' = FALSE
  /\ pending' = pending - 1
  /\ UNCHANGED error

\* part_003 lines 149-153: the await throws
Rejected(err) ==
  /\ error' = Some(IF err.isError THEN err.message
                   ELSE "An error occurred during packing")
  /\ packingResult' = Null
  /\ isLoading' = FALSE
  /\ pending' = pending - 1

\* part_003 lines 143-145: the timer callback calls the module's packItems, which
\* sets up its locals (part_002 lines 302-312) and enters its loop
TimeoutCallsPackItems ==
  /\ pc = "idle"
  /\ timers # <<>>
  /\ ~mockPackItems.mocked
  /\ ~Throws(Head(timers).vehicle)
  /\ timers' = Tail(timers)
  /\ packItemsCalls' = packItemsCalls + 1
  /\ vehicle' = Head(timers).vehicle
  /\ items' = Head(timers).items
  /\ processedItems' = preprocessItems(Head(timers).items)
  /\ idx' = 1
  /\ packedItems' = <<>>
  /\ unpackedItems' = <<>>
  /\ totalVolumeUsed' = 0
  /\ itemsRejectedByOpening' = 0
  /\ itemsRequiringCompression' = 0
  /\ pc' = "loop"
  /\ result' = NoResult
  /\ UNCHANGED << packingResult, isLoading, error, pending, mockPackItems >>

\* part_003 lines 143-145: packItems throws inside the timer callback; resolve is
\* not reached, the promise of line 142 is never settled, so neither line 148 nor
\* the catch and finally blocks run
TimeoutCallbackThrows ==
  /\ pc = "idle"
  /\ timers # <<>>
  /\ ~mockPackItems.mocked
  /\ Throws(Head(timers).vehicle)
  /\ timers' = Tail(timers)
  /\ packItemsCalls' = packItemsCalls + 1
  /\ UNCHANGED << Locals, packingResult, isLoading, error, pending, mockPackItems >>

\* part_003 lines 143-153 with the mock of part_005: resolve is given the promise
\* the mock returns, and the await follows it
TimeoutCallsMock ==
  /\ pc = "idle"
  /\ timers # <<>>
  /\ mockPackItems.mocked
  /\ timers' = Tail(timers)
  /\ packItemsCalls' = packItemsCalls + 1
  /\ \/ /\ mockPackItems.once = <<>>
        /\ Fulfilled(mockPackingResult)
        /\ UNCHANGED mockPackItems
     \/ /\ mockPackItems.once # <<>>
        /\ Rejected(Head(mockPackItems.once))
        /\ mockPackItems' = [mockPackItems EXCEPT !.once = Tail(@)]
  /\ UNCHANGED Locals

\* part_003 lines 144, 148, 153: packItems returned, resolve(result), the await
\* resumes
Resumes ==
  /\ pc = "done"
  /\ pending > 0
  /\ Fulfilled(result)
  /\ pc' = "idle"
  /\ UNCHANGED << vehicle, items, processedItems, idx, packedItems, unpackedItems,
                  totalVolumeUsed, itemsRejectedByOpening, itemsRequiringCompression,
                  result, timers, mockPackItems, packItemsCalls >>

\* part_003 lines 157-160
clearResults ==
  /\ pc = "idle"
  /\ packingResult' = Null
  /\ error' = Null
  /\ UNCHANGED << Locals, isLoading, timers, pending, mockPackItems, packItemsCalls >>

\* the hook with calls issued at any time
NextHook ==
  \/ \E c \in CallArgs : PackItemsInVehicle(c.vehicle, c.items)
  \/ TimeoutCallsPackItems
  \/ TimeoutCallbackThrows
  \/ TimeoutCallsMock
  \/ Next
  \/ Resumes
  \/ clearResults

SpecHook == InitHook /\ [][NextHook]_vars

\* the hook with a call issued only when none is in flight
NextSequential ==
  \/ /\ pending = 0
     /\ \E c \in CallArgs : PackItemsInVehicle(c.vehicle, c.items)
  \/ TimeoutCallsPackItems
  \/ TimeoutCallbackThrows
  \/ TimeoutCallsMock
  \/ Next
  \/ Resumes
  \/ clearResults

\* a due timer fires, a running packItems call keeps running, a resolved await resumes
FairSpecSequential ==
  /\ InitHook
  /\ [][NextSequential]_vars
  /\ WF_vars(TimeoutCallsPackItems \/ TimeoutCallbackThrows \/ TimeoutCallsMock)
  /\ WF_vars(Next)
  /\ WF_vars(Resumes)

\* getPackingSummary (without the weight total)
getPackingSummary(r) ==
  [totalItems |-> Len(r.packedItems) + Len(r.unpackedItems),
   packedCount |-> Len(r.packedItems),
   unpackedCount |-> Len(r.unpackedItems),
   cabinSuitableUnpacked |-> Len(r.cabinOverflowSuggested)]

TypeOK ==
  /\ pc \in {"idle", "loop", "done"}
  /\ idx \in 1..(Len(processedItems) + 1)
  /\ Len(processedItems) = Len(items)

\* ======================================================== claims C1 - C30
Done == pc = "done"

PackedIdx == 1..Len(packedItems)

\* the catalogue item an ItemWithMetrics record was built from
Strip(it) ==
  [name |-> it.name, dimensions |-> it.dimensions, rigidity |-> it.rigidity,
   cabinSuitable |-> it.cabinSuitable, compressibility |-> it.compressibility,
   orientationConstraints |-> it.orientationConstraints]

\* two packed boxes are separated on at least one axis (a shared face is allowed)
Separated(a, b) ==
  \/ a.position.x + a.orientation.length <= b.position.x
  \/ b.position.x + b.orientation.length <= a.position.x
  \/ a.position.y + a.orientation.width <= b.position.y
  \/ b.position.y + b.orientation.width <= a.position.y
  \/ a.position.z + a.orientation.height <= b.position.z
  \/ b.position.z + b.orientation.height <= a.position.z

NoTwoOverlap(entries) ==
  \A i, j \in 1..Len(entries) : i < j => Separated(entries[i], entries[j])

\* C1: no two packed boxes overlap, after every step of the per-item loop and in
\* the returned packedItems, compressed placements included.
C1_NoOverlap ==
  /\ NoTwoOverlap(packedItems)
  /\ Done => NoTwoOverlap(result.packedItems)

\* a compressed box and another box packed next to it, sharing a face
C1_Witness ==
  /\ Done
  /\ \E i, j \in 1..Len(result.packedItems) :
       /\ i # j
       /\ result.packedItems[i].compressed
       /\ result.packedItems[i].position.y + result.packedItems[i].orientation.width
            <= result.packedItems[j].position.y
       /\ result.packedItems[i].position.x < result.packedItems[j].position.x
                                               + result.packedItems[j].orientation.length
       /\ result.packedItems[j].position.x < result.packedItems[i].position.x
                                               + result.packedItems[i].orientation.length

Inside(e, bm) ==
  /\ e.position.x >= 0 /\ e.position.y >= 0 /\ e.position.z >= 0
  /\ e.position.x + e.orientation.length <= bm.length
  /\ e.position.y + e.orientation.width <= bm.width
  /\ e.position.z + e.orientation.height <= bm.height

\* C2: every packed entry lies inside the nominal boot box, compressed or not.
C2_Containment ==
  /\ \A k \in PackedIdx : Inside(packedItems[k], vehicle.bootMeasurements)
  /\ Done => \A k \in 1..Len(result.packedItems) :
               Inside(result.packedItems[k], vehicle.bootMeasurements)

\* a later item was left unpacked although the boot holds a compressed entry off
\* the grid and an entry that touches the far walls
C2_Witness ==
  /\ Done
  /\ Len(result.unpackedItems) > 0
  /\ \E k \in 1..Len(result.packedItems) :
       /\ result.packedItems[k].compressed
       /\ result.packedItems[k].position.x % stepSize # 0
       /\ result.packedItems[k].position.x + result.packedItems[k].orientation.length
            = vehicle.bootMeasurements.length

\* number of entries of the sequence s equal to x
Count(s, x) == Cardinality({k \in 1..Len(s) : s[k] = x})

HandledItems ==
  [k \in 1..(Len(packedItems) + Len(unpackedItems)) |->
     IF k <= Len(packedItems) THEN Strip(packedItems[k].item)
     ELSE Strip(unpackedItems[k - Len(packedItems)])]

\* C3: every input item ends in exactly one of packedItems or unpackedItems, once:
\* the items handled so far are the first idx-1 sorted items, and on return the
\* two lists together hold each input item as often as the input does.
C3_Conservation ==
  /\ Len(packedItems) + Len(unpackedItems) = idx - 1
  /\ \A c \in CatalogItems :
       Count(HandledItems, c)
         = Count([k \in 1..(idx - 1) |-> Strip(processedItems[k])], c)
  /\ Done => /\ Len(result.packedItems) + Len(result.unpackedItems) = Len(items)
             /\ getPackingSummary(result).totalItems = Len(items)
             /\ \A c \in CatalogItems :
                  Count(HandledItems, c) = Count(items, c)
             /\ result.packedItems = packedItems
             /\ result.unpackedItems = unpackedItems

\* a run that took the opening-rejected branch and a packing branch
C3_Witness ==
  /\ Done
  /\ Len(items) = MaxItems
  /\ itemsRejectedByOpening > 0
  /\ Len(result.packedItems) > 0

HasOpening(bm) == bm.openingWidth # 0 \/ bm.openingHeight # 0

\* the opening test on the declared opening dimensions, 20 mm of clearance
ClearsOpening(o, bm) ==
  /\ bm.openingWidth # 0 => o.width <= bm.openingWidth - 20
  /\ bm.openingHeight # 0 => o.height <= bm.openingHeight - 20

\* 0 (uncompressed) and the 5-point levels up to the compressibility c
LevelsUpTo(c) == {0} \cup {p \in 5..c : p % 5 = 0}

OrientationsAt(it, p) ==
  generateOrientations(IF p = 0 THEN it.dimensions ELSE CompressDims(it.dimensions, p),
                       it.orientationConstraints)

\* no allowed orientation of the item clears the opening, at any level it may use
NeverClearsOpening(it, bm) ==
  \A p \in LevelsUpTo(it.compressibility) :
    LET os == OrientationsAt(it, p)
    IN \A k \in 1..Len(os) : ~ClearsOpening(os[k], bm)

\* C4: with opening dimensions declared, an item none of whose allowed orientations
\* clears the opening, uncompressed or at any level up to its compressibility, is
\* never packed: once handled it is in unpackedItems.
C4_OpeningGating ==
  HasOpening(vehicle.bootMeasurements) =>
    /\ \A k \in PackedIdx :
         ~NeverClearsOpening(packedItems[k].item, vehicle.bootMeasurements)
    /\ Cardinality({k \in 1..(idx - 1) :
                      NeverClearsOpening(processedItems[k], vehicle.bootMeasurements)})
         = Cardinality({k \in 1..Len(unpackedItems) :
                          NeverClearsOpening(unpackedItems[k], vehicle.bootMeasurements)})

\* the 900x900x100 flat_only item against the 1000x1000x500 boot with opening
\* 800x400: unpacked although the empty boot has room for it
C4_Witness ==
  /\ Done
  /\ vehicle.bootMeasurements = MkBoot(1000, 1000, 500, 800, 400)
  /\ Len(items) = 1
  /\ items[1].dimensions = Dims(900, 900, 100)
  /\ items[1].orientationConstraints = "flat_only"
  /\ items[1].compressibility = 0
  /\ findBestPosition(Dims(900, 900, 100), bootSpace, <<>>).found
  /\ NeverClearsOpening(items[1], vehicle.bootMeasurements)
  /\ result.packedItems = <<>>
  /\ Len(result.unpackedItems) = 1

\* C5: with opening dimensions declared, the orientation of every packed entry
\* clears the opening, on all three packing paths.
C5_PackedClearsOpening ==
  /\ \A k \in PackedIdx :
       ClearsOpening(packedItems[k].orientation, vehicle.bootMeasurements)
  /\ Done => \A k \in 1..Len(result.packedItems) :
               ClearsOpening(result.packedItems[k].orientation, vehicle.bootMeasurements)

\* an opening boot holding an entry compressed for space (its item clears the
\* opening uncompressed) next to an uncompressed entry
C5_Witness ==
  /\ Done
  /\ HasOpening(vehicle.bootMeasurements)
  /\ \E k \in 1..Len(result.packedItems) :
       /\ result.packedItems[k].compressed
       /\ Len(filterOrientationsForOpening(result.packedItems[k].item.orientations,
                                           bootSpace)) > 0
  /\ \E k \in 1..Len(result.packedItems) : ~result.packedItems[k].compressed

CompressionOK(e) ==
  \/ ~e.compressed /\ e.compressionApplied = 0
  \/ /\ e.compressed
     /\ e.compressionApplied % 5 = 0
     /\ 5 <= e.compressionApplied
     /\ e.compressionApplied <= e.item.compressibility

\* C6: compressionApplied is 0 with compressed = false, or a multiple of 5 from 5
\* up to the item's compressibility with compressed = true; an item of
\* compressibility 0 is never packed compressed.
C6_CompressionBound ==
  \A k \in PackedIdx :
    /\ CompressionOK(packedItems[k])
    /\ packedItems[k].item.compressibility = 0 => ~packedItems[k].compressed

\* an entry compressed for the opening to the full compressibility of its item
C6_Witness ==
  /\ HasOpening(vehicle.bootMeasurements)
  /\ \E k \in PackedIdx :
       /\ packedItems[k].compressed
       /\ packedItems[k].compressionApplied = packedItems[k].item.compressibility
       /\ Len(filterOrientationsForOpening(packedItems[k].item.orientations,
                                           bootSpace)) = 0

\* C7: 0 <= volumeUtilization <= 100, and it is 0 exactly when nothing was packed;
\* an empty item list gives empty lists, utilization 0 and bootSpaceUsed 0.
C7_UtilizationBounds ==
  Done =>
    LET vu == result.volumeUtilization
    IN /\ WideLeq(Wide(1), vu.den)
       /\ WideLeq(WideZero, vu.num)
       /\ WideLeq(vu.num, Scale(vu.den, 100))
       /\ vu.num = WideZero <=> result.packedItems = <<>>
       /\ items = <<>> => /\ result.packedItems = <<>>
                          /\ result.unpackedItems = <<>>
                          /\ vu.num = WideZero
                          /\ result.bootSpaceUsed = 0

\* the packed boxes exceed the effective volume: the utilization is clamped to 100
C7_Witness ==
  /\ Done
  /\ result.packedItems # <<>>
  /\ result.volumeUtilization.num = Scale(result.volumeUtilization.den, 100)
  /\ ~WideLeq(Scale(Wide(result.bootSpaceUsed), 100), result.bootSpaceAvailable.num)

RECURSIVE SumVolumes(_, _)
SumVolumes(entries, k) ==
  IF k > Len(entries) THEN 0
  ELSE entries[k].orientation.length * entries[k].orientation.width
         * entries[k].orientation.height + SumVolumes(entries, k + 1)

\* C8: bootSpaceUsed is the sum of the volumes of the packed orientations,
\* bootSpaceAvailable is length * width * height times the efficiency factor, and
\* volumeUtilization is min(100, 100 * bootSpaceUsed / bootSpaceAvailable).
C8_Accounting ==
  Done =>
    LET bm == vehicle.bootMeasurements
        used == SumVolumes(result.packedItems, 1)
        avail100 == Scale(Wide(bm.length * bm.width * bm.height),
                          bootSpace.efficiencyFactor)
    IN /\ result.bootSpaceUsed = used
       /\ result.bootSpaceAvailable = [num |-> avail100, den |-> 100]
       /\ result.volumeUtilization.den = avail100
       /\ IF WideLeq(avail100, Scale(Wide(used), 100))
          THEN result.volumeUtilization.num = Scale(avail100, 100)
          ELSE result.volumeUtilization.num = Scale(Scale(Wide(used), 100), 100)

\* a compressed and an uncompressed entry, utilization below 100
C8_Witness ==
  /\ Done
  /\ \E k \in 1..Len(result.packedItems) :
       /\ result.packedItems[k].compressed
       /\ result.packedItems[k].orientation # result.packedItems[k].item.dimensions
  /\ \E k \in 1..Len(result.packedItems) : ~result.packedItems[k].compressed
  /\ result.volumeUtilization.num # Scale(result.volumeUtilization.den, 100)

SeveritiesOf(irrs) == {irrs[k].severity : k \in 1..Len(irrs)}

\* the factor, in percent, as the worst severity present decides it
WorstFactor(sevs) ==
  IF "significant" \in sevs THEN 70
  ELSE IF "moderate" \in sevs THEN 75
  ELSE IF "minor" \in sevs THEN 80
  ELSE 85

AvailableOf(v) ==
  Scale(Wide(calculateEffectiveBootSpace(v).volume),
        calculateEffectiveBootSpace(v).efficiencyFactor)

\* C9: the efficiency factor is 0.85, 0.80, 0.75 or 0.70 by the worst severity
\* present, whatever the order and the number of the irregularities, and a boot
\* with a significant irregularity has strictly less bootSpaceAvailable than the
\* same boot without irregularities.
C9_EfficiencyFactor ==
  LET sevs == SeveritiesOf(vehicle.bootIrregularities)
      clean == [vehicle EXCEPT !.bootIrregularities = <<>>]
  IN /\ bootSpace.efficiencyFactor = WorstFactor(sevs)
     /\ \A other \in IrregularityLists :
          SeveritiesOf(other) = sevs =>
            calculateEffectiveBootSpace(
              [vehicle EXCEPT !.bootIrregularities = other]).efficiencyFactor
              = bootSpace.efficiencyFactor
     /\ Done =>
          /\ result.bootSpaceAvailable
               = [num |-> Scale(Wide(bootSpace.volume), WorstFactor(sevs)), den |-> 100]
          /\ "significant" \in sevs =>
               /\ WideLeq(result.bootSpaceAvailable.num, AvailableOf(clean))
               /\ result.bootSpaceAvailable.num # AvailableOf(clean)

\* a significant irregularity followed by a milder one, with an item packed
C9_Witness ==
  /\ Done
  /\ Len(vehicle.bootIrregularities) = 2
  /\ vehicle.bootIrregularities[1].severity = "significant"
  /\ vehicle.bootIrregularities[2].severity = "minor"
  /\ result.packedItems # <<>>

FitsNominal(o, bm) ==
  o.length <= bm.length /\ o.width <= bm.width /\ o.height <= bm.height

\* C10: one item, no opening dimensions: the item is packed uncompressed exactly
\* when one of its allowed orientations fits the nominal boot dimensions; when none
\* fits and the item is incompressible it is unpacked.
C10_SingleItem ==
  (Done /\ Len(items) = 1 /\ ~HasOpening(vehicle.bootMeasurements)) =>
    LET it == items[1]
        os == generateOrientations(it.dimensions, it.orientationConstraints)
        fits == \E k \in 1..Len(os) : FitsNominal(os[k], vehicle.bootMeasurements)
        packedAsIs == /\ Len(result.packedItems) = 1
                      /\ ~result.packedItems[1].compressed
                      /\ result.packedItems[1].compressionApplied = 0
    IN /\ packedAsIs <=> fits
       /\ (~fits /\ it.compressibility = 0) =>
            /\ result.packedItems = <<>>
            /\ Len(result.unpackedItems) = 1
            /\ Strip(result.unpackedItems[1]) = it

\* the 200x150x100 item alone in the 200x150x100 boot with a significant
\* irregularity: packed as it is, although larger than the effective volume
C10_Witness ==
  /\ Done
  /\ vehicle.bootMeasurements = MkBoot(200, 150, 100, 0, 0)
  /\ "significant" \in SeveritiesOf(vehicle.bootIrregularities)
  /\ Len(items) = 1
  /\ items[1].dimensions = Dims(200, 150, 100)
  /\ Len(result.packedItems) = 1
  /\ ~result.packedItems[1].compressed
  /\ result.unpackedItems = <<>>

\* the positions of the cabin-suitable entries of a list, and the position of the
\* n-th of them
SuitableIdx(un) == {k \in 1..Len(un) : un[k].cabinSuitable}
NthSuitable(un, n) ==
  CHOOSE j \in SuitableIdx(un) : Cardinality({i \in SuitableIdx(un) : i <= j}) = n

KeepsInput(it) ==
  /\ \E i \in 1..Len(items) : Strip(it) = items[i]
  /\ it.volume = it.dimensions.length * it.dimensions.width * it.dimensions.height

\* C12: the item carried by every packed and every unpacked entry keeps the
\* dimensions (and the other fields) of the input item it was built from, also
\* when compression was tried or applied: compression shows in the orientation
\* only. No step of packItems changes the caller's item list or vehicle.
C12_ItemsUntouched ==
  /\ [](/\ \A k \in PackedIdx : KeepsInput(packedItems[k].item)
        /\ \A k \in 1..Len(unpackedItems) : KeepsInput(unpackedItems[k])
        /\ Done => /\ \A k \in 1..Len(result.packedItems) :
                        KeepsInput(result.packedItems[k].item)
                   /\ \A k \in 1..Len(result.unpackedItems) :
                        KeepsInput(result.unpackedItems[k])
                   /\ \A c \in CatalogItems :
                        Count([k \in 1..Len(result.packedItems) |->
                                 Strip(result.packedItems[k].item)], c)
                          + Count([k \in 1..Len(result.unpackedItems) |->
                                     Strip(result.unpackedItems[k])], c)
                          = Count(items, c))
  /\ [][items' = items /\ vehicle' = vehicle]_vars

\* a compressed entry smaller than its item, next to an unpacked compressible item
\* for which the compression levels were tried in vain
C12_Witness ==
  /\ Done
  /\ \E k \in 1..Len(result.packedItems) :
       /\ result.packedItems[k].compressed
       /\ calculateItemVolume(result.packedItems[k].orientation)
            < calculateItemVolume(result.packedItems[k].item.dimensions)
  /\ \E k \in 1..Len(result.unpackedItems) :
       result.unpackedItems[k].compressibility > 0

\* the grid of findBestPosition for a box o in the boot bm: z and y count up from 0,
\* x counts down from the back wall
GridX(o, bm) ==
  {bm.length - o.length - 50 * i : i \in 0..((bm.length - o.length) \div 50)}
GridY(o, bm) == {50 * i : i \in 0..((bm.width - o.width) \div 50)}
GridZ(o, bm) == {50 * i : i \in 0..((bm.height - o.height) \div 50)}

\* the box o at pos is inside the boot and apart from (or just touching) every entry
Feasible(o, bm, entries, pos) ==
  LET box == [position |-> pos, orientation |-> o]
  IN /\ Inside(box, bm)
     /\ \A k \in 1..Len(entries) : Separated(box, entries[k])

\* c is scanned before d: lower z, then lower y, then higher x
Earlier(c, d) ==
  \/ c.z < d.z
  \/ c.z = d.z /\ c.y < d.y
  \/ c.z = d.z /\ c.y = d.y /\ c.x > d.x

SomeFeasible(o, bm, entries) ==
  LET gx == GridX(o, bm)
      gy == GridY(o, bm)
  IN \E z \in GridZ(o, bm) : \E y \in gy : \E x \in gx :
       Feasible(o, bm, entries, Pos(x, y, z))

\* pos is a feasible grid candidate and no candidate scanned before it is feasible
FirstFeasible(o, bm, entries, pos) ==
  /\ pos.x \in GridX(o, bm) /\ pos.y \in GridY(o, bm) /\ pos.z \in GridZ(o, bm)
  /\ Feasible(o, bm, entries, pos)
  /\ LET gx == GridX(o, bm)
         gy == GridY(o, bm)
     IN \A z \in {zz \in GridZ(o, bm) : zz <= pos.z} :
          \A y \in {yy \in gy : z < pos.z \/ yy <= pos.y} :
            \A x \in gx :
              Earlier(Pos(x, y, z), pos) => ~Feasible(o, bm, entries, Pos(x, y, z))

InOrder(a, b) ==
  \/ a.volume > b.volume
  \/ a.volume = b.volume /\ a.rigidityOrder <= b.rigidityOrder

SortedByVolumeThenRigidity(s) ==
  \A i, j \in 1..Len(s) : i < j => InOrder(s[i], s[j])

SameKeys(a, b) == a.volume = b.volume /\ a.rigidityOrder = b.rigidityOrder

\* the entries of s with the sort keys of e, in the order of s
KeyClass(s, e) == SelectSeqIdx(s, {k \in 1..Len(s) : SameKeys(s[k], e)}, 1)

\* s can be obtained from t by deleting entries
IsSubseq(s, t) ==
  \E f \in [1..Len(s) -> 1..Len(t)] :
    /\ \A i, j \in 1..Len(s) : i < j => f[i] < f[j]
    /\ \A i \in 1..Len(s) : s[i] = t[f[i]]

ItemsOf(entries) == [k \in 1..Len(entries) |-> entries[k].item]

\* C17: items are processed by volume descending, ties by rigidity rank ascending,
\* items equal in both keys in input order; packedItems and unpackedItems are
\* filled in processing order, so both are sorted the same way and keep the input
\* order among items equal in both keys.
C17_ProcessingOrder ==
  LET inputs == [i \in 1..Len(items) |-> WithMetrics(items[i])]
      handled == SubSeq(processedItems, 1, idx - 1)
  IN /\ SortedByVolumeThenRigidity(processedItems)
     /\ \A i \in 1..Len(inputs) :
          KeyClass(processedItems, inputs[i]) = KeyClass(inputs, inputs[i])
     /\ IsSubseq(ItemsOf(packedItems), handled)
     /\ IsSubseq(unpackedItems, handled)
     /\ SortedByVolumeThenRigidity(ItemsOf(packedItems))
     /\ SortedByVolumeThenRigidity(unpackedItems)
     /\ Done =>
          /\ SortedByVolumeThenRigidity(ItemsOf(result.packedItems))
          /\ SortedByVolumeThenRigidity(result.unpackedItems)
          /\ \A i \in 1..Len(inputs) :
               /\ IsSubseq(KeyClass(ItemsOf(result.packedItems), inputs[i]),
                           KeyClass(inputs, inputs[i]))
               /\ IsSubseq(KeyClass(result.unpackedItems, inputs[i]),
                           KeyClass(inputs, inputs[i]))

\* two packed items of equal volume given with the less rigid one first: the more
\* rigid one was packed first
C17_Witness ==
  /\ Done
  /\ Len(items) = 2
  /\ calculateItemVolume(items[1].dimensions) = calculateItemVolume(items[2].dimensions)
  /\ getRigidityOrder(items[1].rigidity) > getRigidityOrder(items[2].rigidity)
  /\ ItemsOf(result.packedItems) = <<WithMetrics(items[2]), WithMetrics(items[1])>>

\* two different items equal in volume and rigidity, handled in input order
C17_StableTie ==
  /\ Done
  /\ Len(items) = 2
  /\ items[1] # items[2]
  /\ SameKeys(WithMetrics(items[1]), WithMetrics(items[2]))
  /\ processedItems = <<WithMetrics(items[1]), WithMetrics(items[2])>>

Triple(d) == <<d.length, d.width, d.height>>

\* the triple o holds the three dimensions of d in some order
IsPermutationOf(o, d) ==
  \E f \in Permutations({1, 2, 3}) : \A i \in 1..3 : Triple(o)[i] = Triple(d)[f[i]]

\* the six triples in generator order, written as sequences
SixTriples(l, w, h) ==
  << <<l, w, h>>, <<w, l, h>>, <<h, w, l>>, <<l, h, w>>, <<w, h, l>>, <<h, l, w>> >>

\* os is what the orientation generator has to return for d under the constraint
OrientationsAsSpecified(os, d, constraint) ==
  LET l == d.length
      w == d.width
      h == d.height
      six == SixTriples(l, w, h)
      flat == {i \in 1..6 : 10 * six[i][3] <= 6 * (IF l >= w THEN l ELSE w)}
      got == [k \in 1..Len(os) |-> Triple(os[k])]
  IN /\ constraint = "upright_only" => got = << <<l, w, h>> >>
     /\ constraint = "any" => got = six
     /\ constraint = "flat_only" =>
          /\ Len(got) = Cardinality(flat)
          /\ \A k \in 1..Len(got) :
               \E i \in flat : /\ Cardinality({j \in flat : j <= i}) = k
                               /\ got[k] = six[i]
     /\ \A k \in 1..Len(os) : IsPermutationOf(os[k], d)

\* C18: generateOrientations returns the single triple (l, w, h) for upright_only,
\* the six triples (l,w,h), (w,l,h), (h,w,l), (l,h,w), (w,h,l), (h,l,w) in that order
\* for any, duplicates included, and for flat_only those of the six, in order, whose
\* height is at most 0.6 * max(l, w), possibly none; every triple is a permutation
\* of the input. Checked for the orientations stored by preprocessItems and for
\* the generator applied to each item at every compression level it may use.
C18_Orientations ==
  \A k \in 1..Len(processedItems) :
    LET it == processedItems[k]
    IN /\ OrientationsAsSpecified(it.orientations, it.dimensions,
                                  it.orientationConstraints)
       /\ \A p \in LevelsUpTo(it.compressibility) :
            LET d == IF p = 0 THEN it.dimensions ELSE CompressDims(it.dimensions, p)
            IN OrientationsAsSpecified(
                 generateOrientations(d, it.orientationConstraints), d,
                 it.orientationConstraints)

\* a flat_only item left with two of the six triples and one left with none
C18_Witness ==
  /\ Done
  /\ \E j, k \in 1..Len(processedItems) :
       /\ processedItems[j].orientationConstraints = "flat_only"
       /\ Len(processedItems[j].orientations) = 2
       /\ processedItems[k].orientationConstraints = "flat_only"
       /\ processedItems[k].orientations = <<>>

\* n is an integer nearest to d * (1 - p/100)
NearestScaled(n, d, p) ==
  LET diff == 100 * n - d * (100 - p)
  IN 2 * (IF diff >= 0 THEN diff ELSE 0 - diff) <= 100

\* the entry's orientation is allowed by its item's orientation constraint
RespectsConstraint(e) ==
  LET d == e.item.dimensions
      p == e.compressionApplied
      o == e.orientation
      scaled == CompressDims(d, p)
  IN /\ \E f \in Permutations({1, 2, 3}) :
          \A i \in 1..3 : NearestScaled(Triple(o)[i], Triple(d)[f[i]], p)
     /\ e.item.orientationConstraints = "upright_only" =>
          /\ \A i \in 1..3 : NearestScaled(Triple(o)[i], Triple(d)[i], p)
          /\ p = 0 => o.height = d.height
     /\ e.item.orientationConstraints = "flat_only" =>
          10 * o.height <= 6 * Max(scaled.length, scaled.width)

\* C19: the orientation of every packed entry is a permutation of its item's
\* dimensions scaled by (1 - compressionApplied/100) and rounded; for an
\* upright_only item it is that triple unpermuted (the original height when
\* uncompressed), for a flat_only item its height is at most 0.6 times the larger
\* of the scaled length and width.
C19_OrientationConstraint ==
  /\ \A k \in PackedIdx : RespectsConstraint(packedItems[k])
  /\ Done => \A k \in 1..Len(result.packedItems) :
               RespectsConstraint(result.packedItems[k])

\* a compressed flat_only entry next to a second packed entry
C19_Witness ==
  /\ Done
  /\ Len(result.packedItems) = 2
  /\ \E k \in 1..2 :
       /\ result.packedItems[k].item.orientationConstraints = "flat_only"
       /\ result.packedItems[k].compressed
       /\ result.packedItems[k].compressionApplied > 0

\* a compressed upright_only entry, kept upright
C19_UprightCompressed ==
  /\ Done
  /\ \E k \in 1..Len(result.packedItems) :
       /\ result.packedItems[k].item.orientationConstraints = "upright_only"
       /\ result.packedItems[k].compressionApplied > 0
       /\ result.packedItems[k].orientation.height
            < result.packedItems[k].item.dimensions.height

\* the positions, in generator order, of the uncompressed orientations of the item
\* that clear the opening and have a feasible grid position among the entries
Usable(it, bm, entries) ==
  {i \in 1..Len(it.orientations) :
     /\ ClearsOpening(it.orientations[i], bm)
     /\ SomeFeasible(it.orientations[i], bm, entries)}

\* the entry was packed against the entries before it without needless compression
CompressedOnlyIfNeeded(e, bm, before) ==
  LET usable == Usable(e.item, bm, before)
  IN IF e.compressed
     THEN usable = {}
     ELSE /\ usable # {}
          /\ e.compressionApplied = 0
          /\ e.orientation
               = e.item.orientations[CHOOSE i \in usable : \A j \in usable : i <= j]

\* C20: an item is packed uncompressed, with the first orientation in generator
\* order that clears the opening and has a position among the boxes packed so far,
\* whenever there is such an orientation; an entry is compressed only if the item
\* had no such orientation when it was handled.
C20_CompressionOnlyWhenNeeded ==
  /\ [](\A k \in PackedIdx :
          CompressedOnlyIfNeeded(packedItems[k], vehicle.bootMeasurements,
                                 SubSeq(packedItems, 1, k - 1)))
  /\ [][(InLoop /\ Usable(itemWithMetrics, vehicle.bootMeasurements, packedItems) # {})
          => /\ Len(packedItems') = Len(packedItems) + 1
             /\ packedItems'[Len(packedItems')].item = itemWithMetrics
             /\ ~packedItems'[Len(packedItems')].compressed
             /\ unpackedItems' = unpackedItems]_vars

\* an item that fits the empty boot as it is, packed compressed because of the box
\* packed before it; that box sits uncompressed in its generator-first orientation
C20_Witness ==
  /\ Done
  /\ Len(result.packedItems) = 2
  /\ ~result.packedItems[1].compressed
  /\ result.packedItems[2].compressed
  /\ Usable(result.packedItems[2].item, vehicle.bootMeasurements, <<>>) # {}

\* an uncompressed entry in an orientation other than the first of the generator
C20_LaterOrientation ==
  \E k \in PackedIdx :
    /\ ~packedItems[k].compressed
    /\ packedItems[k].orientation # packedItems[k].item.orientations[1]

\* a step of the loop body, and the step that leaves the loop
HandlesOneItem ==
  InLoop /\ idx <= Len(processedItems) /\ idx' = idx + 1 /\ pc' = "loop"
Returns ==
  pc = "loop" /\ idx > Len(processedItems) /\ pc' = "done"

\* an item for which no orientation at no compression level has a position
Infeasible == OpeningCompressionFails \/ NothingWorks

\* C13: packItems terminates and returns a PackingResult: every step handles one
\* more item or returns, so a call is over after Len(items) + 1 steps; every pass
\* through the loop body has one of its five outcomes, none is left without a next
\* step; an item without any position is appended to unpackedItems and the loop goes
\* on; the call ends with a result whose two lists hold all items.
C13_Terminates ==
  /\ [](InLoop => \/ OpeningCompressionWorks
                  \/ OpeningCompressionFails
                  \/ FitsUncompressed
                  \/ SpaceCompressionWorks
                  \/ NothingWorks)
  /\ [](idx \in 1..(Len(items) + 1))
  /\ [][HandlesOneItem \/ Returns]_vars
  /\ [][Infeasible => /\ unpackedItems' = Append(unpackedItems, itemWithMetrics)
                      /\ pc' = "loop"]_vars
  /\ [](Done => /\ result # NoResult
                /\ Len(result.packedItems) + Len(result.unpackedItems) = Len(items))

\* a call that returned with an item it could place nowhere, next to a packed one
C13_Witness ==
  /\ Done
  /\ Len(result.packedItems) > 0
  /\ \E k \in 1..Len(result.unpackedItems) :
       /\ result.unpackedItems[k].compressibility = 0
       /\ \A i \in 1..Len(result.unpackedItems[k].orientations) :
            ~FitsNominal(result.unpackedItems[k].orientations[i],
                         vehicle.bootMeasurements)

\* a missing vehicle, a missing item list or an empty item list
MissingOrEmpty(c) == c.vehicle = Null \/ c.items = Null \/ c.items = Some(<<>>)

AcceptedCall ==
  \E c \in CallArgs : Required(c.vehicle, c.items) /\ PackItemsInVehicle(c.vehicle, c.items)

\* pending falls only where an accepted call runs its finally block
Completes == pending' = pending - 1

\* the packItems call of the completing invocation failed
Fails == mockPackItems.mocked /\ mockPackItems.once # <<>>

FailureMessage ==
  IF Head(mockPackItems.once).isError THEN Head(mockPackItems.once).message
  ELSE "An error occurred during packing"

ReturnedValue == IF mockPackItems.mocked THEN mockPackingResult ELSE result

CompletesAsClaimed ==
  /\ ~isLoading'
  /\ IF Fails THEN packingResult' = Null /\ error' = Some(FailureMessage)
     ELSE packingResult' = Some(ReturnedValue) /\ error' = Null

\* C15: an accepted packItemsInVehicle call that runs with no other call in flight
\* clears error and sets isLoading when it starts, eventually completes, and
\* completes with isLoading false and either packingResult = the value packItems
\* returned and error null, or packingResult null and error = the failure message
\* ('An error occurred during packing' for a failure that is not an Error).
C15_AcceptedCallCompletes ==
  /\ [][AcceptedCall => error' = Null /\ isLoading']_vars
  /\ (pending = 1) ~> (pending = 0 /\ ~isLoading)
  /\ [][Completes => CompletesAsClaimed]_vars

\* what holds of C15: the start, the outcome of a call that completes, and
\* completion of every call whose packItems does not throw in the timer callback
C15_UnlessThrown ==
  /\ [][AcceptedCall => error' = Null /\ isLoading']_vars
  /\ [][Completes => CompletesAsClaimed]_vars
  /\ [](\A i \in 1..Len(timers) :
          mockPackItems.mocked \/ ~Throws(timers[i].vehicle))
       => ((pending = 1) ~> (pending = 0 /\ ~isLoading))

\* a call whose packItems threw in the timer callback: nothing is left to run for
\* it, and isLoading is still true
C15_Hung ==
  /\ pending = 1
  /\ timers = <<>>
  /\ pc = "idle"
  /\ isLoading
  /\ error = Null

\* the positions, in generator order, of the orientations of the item compressed by
\* p percent that clear the opening and have a feasible grid position
UsableAt(it, p, bm, entries) ==
  LET os == OrientationsAt(it, p)
  IN {i \in 1..Len(os) : ClearsOpening(os[i], bm) /\ SomeFeasible(os[i], bm, entries)}

\* the 5-point levels at which the item has such an orientation
UsableLevels(it, bm, entries) ==
  {p \in LevelsUpTo(it.compressibility) \ {0} : UsableAt(it, p, bm, entries) # {}}

Least(S) == CHOOSE n \in S : \A m \in S : n <= m

\* the item is handled by the space branch: the boot declares no opening dimension,
\* or some uncompressed orientation clears the opening
SpaceTargeted(it, bm) ==
  \/ ~HasOpening(bm)
  \/ \E i \in 1..Len(it.orientations) : ClearsOpening(it.orientations[i], bm)

\* the item meets the boot with no uncompressed position and may be compressed
NeedsSpaceCompression ==
  /\ InLoop
  /\ SpaceTargeted(itemWithMetrics, vehicle.bootMeasurements)
  /\ Usable(itemWithMetrics, vehicle.bootMeasurements, packedItems) = {}
  /\ itemWithMetrics.compressibility > 0

\* C21: space-targeted compression packs the item at the smallest 5-point level up
\* to its compressibility at which some orientation of the compressed dimensions
\* clears the opening and has a feasible grid position, in the first such
\* orientation in generator order; the item is unpacked only if no level has one.
C21_SpaceCompressionLevel ==
  [][NeedsSpaceCompression =>
       LET it == itemWithMetrics
           bm == vehicle.bootMeasurements
           levels == UsableLevels(it, bm, packedItems)
       IN IF levels = {}
          THEN /\ unpackedItems' = Append(unpackedItems, it)
               /\ packedItems' = packedItems
          ELSE LET p == Least(levels)
                   i == Least(UsableAt(it, p, bm, packedItems))
                   e == packedItems'[Len(packedItems')]
               IN /\ Len(packedItems') = Len(packedItems) + 1
                  /\ SubSeq(packedItems', 1, Len(packedItems)) = packedItems
                  /\ e.item = it
                  /\ e.compressed
                  /\ e.compressionApplied = p
                  /\ e.orientation = OrientationsAt(it, p)[i]
                  /\ unpackedItems' = unpackedItems]_vars

\* an entry packed by the space branch at a level below its compressibility, after
\* a lower level did not give a position
C21_Witness ==
  \E k \in PackedIdx :
    LET e == packedItems[k]
        before == SubSeq(packedItems, 1, k - 1)
    IN /\ SpaceTargeted(e.item, vehicle.bootMeasurements)
       /\ e.compressed
       /\ e.compressionApplied = 10
       /\ e.item.compressibility > 10
       /\ UsableAt(e.item, 5, vehicle.bootMeasurements, before) = {}

\* a compressible item of the space branch that no level places
C21_Unpacked ==
  \E k \in 1..Len(unpackedItems) :
    /\ unpackedItems[k].compressibility > 0
    /\ SpaceTargeted(unpackedItems[k], vehicle.bootMeasurements)

\* the opening test of the code: an undeclared opening dimension stands for the
\* boot's own width or height, without margin
PassesOpening(o, bm) ==
  /\ o.width <= (IF bm.openingWidth # 0 THEN bm.openingWidth - 20 ELSE bm.width)
  /\ o.height <= (IF bm.openingHeight # 0 THEN bm.openingHeight - 20 ELSE bm.height)

\* the positions, in generator order, of the orientations at level p that pass
PassingAt(it, p, bm) ==
  LET os == OrientationsAt(it, p)
  IN {i \in 1..Len(os) : PassesOpening(os[i], bm)}

PassingLevels(it, bm) ==
  {p \in LevelsUpTo(it.compressibility) \ {0} : PassingAt(it, p, bm) # {}}

\* opening dimensions are declared, no uncompressed orientation passes the opening
\* and the item may be compressed
NeedsOpeningCompression ==
  /\ InLoop
  /\ HasOpening(vehicle.bootMeasurements)
  /\ PassingAt(itemWithMetrics, 0, vehicle.bootMeasurements) = {}
  /\ itemWithMetrics.compressibility > 0

\* the single candidate of opening-targeted compression
Candidate(it, bm) ==
  LET p == Least(PassingLevels(it, bm))
  IN [level |-> p, orientation |-> OrientationsAt(it, p)[Least(PassingAt(it, p, bm))]]

\* C22: opening-targeted compression selects one candidate, the first orientation in
\* generator order at the smallest 5-point level up to the compressibility whose
\* width and height pass the opening; the item is packed in that orientation at the
\* first feasible grid position if the candidate has one, and is unpacked otherwise,
\* also when another orientation or a higher level would have a position.
C22_OpeningCompressionCandidate ==
  [][NeedsOpeningCompression =>
       LET it == itemWithMetrics
           bm == vehicle.bootMeasurements
       IN IF PassingLevels(it, bm) # {}
             /\ SomeFeasible(Candidate(it, bm).orientation, bm, packedItems)
          THEN LET e == packedItems'[Len(packedItems')]
               IN /\ Len(packedItems') = Len(packedItems) + 1
                  /\ SubSeq(packedItems', 1, Len(packedItems)) = packedItems
                  /\ e.item = it
                  /\ e.compressed
                  /\ e.compressionApplied = Candidate(it, bm).level
                  /\ e.orientation = Candidate(it, bm).orientation
                  /\ FirstFeasible(e.orientation, bm, packedItems, e.position)
                  /\ unpackedItems' = unpackedItems
          ELSE /\ unpackedItems' = Append(unpackedItems, it)
               /\ packedItems' = packedItems]_vars

\* an item left unpacked because its candidate has no position, although a higher
\* level has an orientation that passes the opening and has a position
C22_Witness ==
  /\ HasOpening(vehicle.bootMeasurements)
  /\ \E k \in 1..Len(unpackedItems) :
       LET it == unpackedItems[k]
           bm == vehicle.bootMeasurements
       IN /\ it.compressibility > 0
          /\ PassingAt(it, 0, bm) = {}
          /\ PassingLevels(it, bm) # {}
          /\ packedItems = <<>>
          /\ ~SomeFeasible(Candidate(it, bm).orientation, bm, <<>>)
          /\ \E p \in PassingLevels(it, bm) : \E i \in PassingAt(it, p, bm) :
               /\ p > Candidate(it, bm).level
               /\ SomeFeasible(OrientationsAt(it, p)[i], bm, <<>>)

\* an entry packed by opening-targeted compression at a level above the first
C22_Packed ==
  /\ HasOpening(vehicle.bootMeasurements)
  /\ \E k \in PackedIdx :
       /\ PassingAt(packedItems[k].item, 0, vehicle.bootMeasurements) = {}
       /\ packedItems[k].compressionApplied > 5

\* t is s with one element appended
GrowsByOne(s, t) == Len(t) = Len(s) + 1 /\ SubSeq(t, 1, Len(s)) = s

\* C23: packing is one greedy pass without backtracking: every step of the loop
\* appends exactly one entry, to packedItems or to unpackedItems, and leaves every
\* entry appended before as it is (position, orientation, compressed flag and
\* compressionApplied included), also when the item of the step does not fit; the
\* return step changes neither list and hands both out unchanged.
C23_GreedySinglePass ==
  /\ [][InLoop =>
          \/ GrowsByOne(packedItems, packedItems') /\ unpackedItems' = unpackedItems
          \/ GrowsByOne(unpackedItems, unpackedItems') /\ packedItems' = packedItems]_vars
  /\ [][~InLoop => packedItems' = packedItems /\ unpackedItems' = unpackedItems]_vars
  /\ [](Done => /\ result.packedItems = packedItems
                /\ result.unpackedItems = unpackedItems)

\* a call that packed one item and then failed to place a second one that the empty
\* boot has room for: the first entry was not moved or taken out
C23_Witness ==
  /\ Done
  /\ Len(result.packedItems) = 1
  /\ Len(result.unpackedItems) = 1
  /\ processedItems[2] = result.unpackedItems[1]
  /\ \E i \in 1..Len(processedItems[2].orientations) :
       SomeFeasible(processedItems[2].orientations[i], vehicle.bootMeasurements, <<>>)

\* the orientations of os, in order, that satisfy PassesOpening
PassingOf(os, bm) ==
  SelectSeqIdx(os, {i \in 1..Len(os) : PassesOpening(os[i], bm)}, 1)

\* C24: with opening constraints an orientation passes the opening filter iff its
\* width is at most openingWidth - 20 when openingWidth is declared (else at most the
\* boot width, no margin) and its height is at most openingHeight - 20 when
\* openingHeight is declared (else at most the boot height, no margin); its length
\* plays no part. hasOpeningConstraints is true iff at least one opening dimension
\* is declared, and with none declared the filter returns the list unchanged.
C24_OpeningFilter ==
  InLoop =>
    LET bm == vehicle.bootMeasurements
        os == itemWithMetrics.orientations
    IN /\ bootSpace.hasOpeningConstraints <=> HasOpening(bm)
       /\ HasOpening(bm) =>
            /\ validOrientations = PassingOf(os, bm)
            /\ \A i \in 1..Len(os) :
                 canPassThroughOpening(os[i], bootSpace) <=> PassesOpening(os[i], bm)
       /\ ~HasOpening(bm) => validOrientations = os

\* only the opening width is declared, and the filter keeps an orientation that is
\* higher than the boot height less the margin and longer than the opening is wide,
\* while dropping another one
C24_Witness ==
  /\ InLoop
  /\ vehicle.bootMeasurements.openingWidth # 0
  /\ vehicle.bootMeasurements.openingHeight = 0
  /\ Len(validOrientations) < Len(itemWithMetrics.orientations)
  /\ \E i \in 1..Len(validOrientations) :
       /\ validOrientations[i].height > vehicle.bootMeasurements.height - 20
       /\ validOrientations[i].length > vehicle.bootMeasurements.openingWidth

SignificantIrregularities ==
  {k \in 1..Len(vehicle.bootIrregularities) :
     vehicle.bootIrregularities[k].severity = "significant"}

\* C25: the significant-irregularity warning is in warnings iff at least one boot
\* irregularity has severity significant, and it is there once whatever their number;
\* for a boot that declares no opening dimension it is the only possible warning, so
\* warnings is empty when no irregularity is significant.
C25_SignificantIrregularityWarning ==
  Done =>
    /\ Count(result.warnings, SignificantWarning)
         = (IF SignificantIrregularities # {} THEN 1 ELSE 0)
    /\ ~HasOpening(vehicle.bootMeasurements) =>
         result.warnings
           = (IF SignificantIrregularities # {} THEN <<SignificantWarning>> ELSE <<>>)

\* a boot without opening dimensions and with two significant irregularities, an item
\* left unpacked, and the warning alone in warnings
C25_Witness ==
  /\ Done
  /\ Cardinality(SignificantIrregularities) = 2
  /\ ~HasOpening(vehicle.bootMeasurements)
  /\ Len(result.unpackedItems) = 1
  /\ result.warnings = <<SignificantWarning>>

\* a boot with both opening dimensions and a significant irregularity next to a minor
\* one: the warning is there once, among the opening's warnings
C25_WithOpening ==
  /\ Done
  /\ Cardinality(SignificantIrregularities) = 1
  /\ Len(vehicle.bootIrregularities) = 2
  /\ HasOpening(vehicle.bootMeasurements)
  /\ Len(result.warnings) > 1
  /\ Count(result.warnings, SignificantWarning) = 1

\* the number N of the counted warning with the text of w, 0 when warnings has none
Reported(w) ==
  IF \E k \in 1..Len(result.warnings) : result.warnings[k].text = w.text
  THEN result.warnings[CHOOSE k \in 1..Len(result.warnings) :
                         result.warnings[k].text = w.text].n
  ELSE 0

\* the item has an allowed orientation that fits the empty boot, and no allowed
\* orientation passes the opening, at any level it may be compressed to
RejectedPurelyByOpening(it, bm) ==
  /\ \E i \in 1..Len(it.orientations) : SomeFeasible(it.orientations[i], bm, <<>>)
  /\ \A p \in LevelsUpTo(it.compressibility) : PassingAt(it, p, bm) = {}

\* C26: the count of the warning "N item(s) could not fit through the boot opening
\* despite fitting in the boot space" is the number of unpacked items that have an
\* allowed orientation fitting the boot space but none clearing the opening; items
\* without allowed orientation, too large for the boot, or compressed enough for the
\* opening but without a free position are not counted.
C26_RejectedCount ==
  (Done /\ HasOpening(vehicle.bootMeasurements)) =>
    Reported(RejectedWarning(0))
      = Cardinality({k \in 1..Len(result.unpackedItems) :
                       RejectedPurelyByOpening(result.unpackedItems[k],
                                               vehicle.bootMeasurements)})

\* what packItems counts: every unpacked item none of whose uncompressed orientations
\* passes the opening filter, whatever else keeps it out of the boot
C26_CountsOpeningBranch ==
  (Done /\ HasOpening(vehicle.bootMeasurements)) =>
    /\ Reported(RejectedWarning(0)) = itemsRejectedByOpening
    /\ itemsRejectedByOpening
         = Cardinality({k \in 1..Len(result.unpackedItems) :
                          PassingAt(result.unpackedItems[k], 0,
                                    vehicle.bootMeasurements) = {}})

\* a single item without any allowed orientation is reported as rejected by the opening
C26_NoOrientationCounted ==
  /\ Done
  /\ Len(items) = 1
  /\ Len(result.unpackedItems) = 1
  /\ result.unpackedItems[1].orientations = <<>>
  /\ Reported(RejectedWarning(0)) = 1

\* a single item larger than the boot in every orientation is reported as rejected by
\* the opening
C26_TooLargeCounted ==
  /\ Done
  /\ Len(items) = 1
  /\ Len(result.unpackedItems) = 1
  /\ result.unpackedItems[1].orientations # <<>>
  /\ \A i \in 1..Len(result.unpackedItems[1].orientations) :
       ~SomeFeasible(result.unpackedItems[1].orientations[i],
                     vehicle.bootMeasurements, <<>>)
  /\ Reported(RejectedWarning(0)) = 1

\* a single item that compression brings through the opening, and that then has no
\* position, is reported as rejected by the opening
C26_NoPositionCounted ==
  /\ Done
  /\ Len(items) = 1
  /\ Len(result.unpackedItems) = 1
  /\ PassingLevels(result.unpackedItems[1], vehicle.bootMeasurements) # {}
  /\ Reported(RejectedWarning(0)) = 1

\* the packed entry was compressed and none of its item's uncompressed orientations
\* passes the opening
CompressedForOpening(e, bm) == e.compressed /\ PassingAt(e.item, 0, bm) = {}

\* C27: the count of the warning "N item(s) required compression to fit through the
\* boot opening" is the number of packed items none of whose uncompressed
\* orientations passed the opening filter; an item whose uncompressed orientation
\* clears the opening and that was compressed only for lack of space is not counted.
C27_CompressionCount ==
  (Done /\ HasOpening(vehicle.bootMeasurements)) =>
    Reported(CompressionWarning(0))
      = Cardinality({k \in 1..Len(result.packedItems) :
                       CompressedForOpening(result.packedItems[k],
                                            vehicle.bootMeasurements)})

\* what packItems counts: every compressed entry, of either branch
C27_CountsCompressed ==
  (Done /\ HasOpening(vehicle.bootMeasurements)) =>
    /\ Reported(CompressionWarning(0)) = itemsRequiringCompression
    /\ itemsRequiringCompression
         = Cardinality({k \in 1..Len(result.packedItems) :
                          result.packedItems[k].compressed})

\* the only compressed entry was compressed for lack of space, and is reported as
\* compressed for the opening
C27_SpaceCompressionCounted ==
  /\ Done
  /\ HasOpening(vehicle.bootMeasurements)
  /\ Reported(CompressionWarning(0)) = 1
  /\ \A k \in 1..Len(result.packedItems) :
       ~CompressedForOpening(result.packedItems[k], vehicle.bootMeasurements)

BothOpeningDimensions(bm) == bm.openingWidth # 0 /\ bm.openingHeight # 0

\* min(width, height) of the item is within 30 mm of max(openingWidth, openingHeight),
\* on either side of it
WithinThirty(it, bm) ==
  LET minDimension == Min(it.dimensions.width, it.dimensions.height)
      maxOpening == Max(bm.openingWidth, bm.openingHeight)
  IN minDimension - maxOpening <= 30 /\ maxOpening - minDimension <= 30

\* C28: with both opening dimensions declared, the tight-clearance warning is in
\* warnings exactly when some unpacked item's min(width, height) is within 30 mm of
\* max(openingWidth, openingHeight); it is not emitted for items unpacked for reasons
\* unrelated to the opening, and it is emitted at most once.
C28_TightClearanceWarning ==
  (Done /\ BothOpeningDimensions(vehicle.bootMeasurements)) =>
    Count(result.warnings, TightWarning)
      = (IF \E k \in 1..Len(result.unpackedItems) :
              WithinThirty(result.unpackedItems[k], vehicle.bootMeasurements)
         THEN 1 ELSE 0)

\* the warning is emitted although every allowed orientation of every unpacked item
\* passes the opening uncompressed with the full margin, and no unpacked item has
\* min(width, height) within 30 mm of the opening's larger dimension
C28_UnrelatedItemWarned ==
  /\ Done
  /\ BothOpeningDimensions(vehicle.bootMeasurements)
  /\ Count(result.warnings, TightWarning) > 0
  /\ Len(result.packedItems) > 0
  /\ \A k \in 1..Len(result.unpackedItems) :
       /\ result.unpackedItems[k].orientations # <<>>
       /\ PassingAt(result.unpackedItems[k], 0, vehicle.bootMeasurements)
            = 1..Len(result.unpackedItems[k].orientations)
       /\ ~WithinThirty(result.unpackedItems[k], vehicle.bootMeasurements)

\* what packItems emits with both opening dimensions declared: the warning once for
\* the first clearance loop and once more for the second
C28_TwoLoops ==
  (Done /\ BothOpeningDimensions(vehicle.bootMeasurements)) =>
    Count(result.warnings, TightWarning)
      = (IF \E k \in 1..Len(result.unpackedItems) :
              CloseToOpening(result.unpackedItems[k], bootSpace)
         THEN 1 ELSE 0)
        + (IF \E k \in 1..Len(result.unpackedItems) :
                wouldFitWithMinimalClearance(result.unpackedItems[k], bootSpace)
           THEN 1 ELSE 0)

\* the items of the list have pairwise distinct (volume, rigidity rank) keys
DistinctKeys(its) ==
  \A i, j \in 1..Len(its) :
    i # j => ~SameKeys(WithMetrics(its[i]), WithMetrics(its[j]))

\* the rearrangements of the list
Rearranged(its) ==
  {[i \in 1..Len(its) |-> its[p[i]]] : p \in Permutations(1..Len(its))}

\* C29: the result of a call is a function of its inputs, and if the items have
\* pairwise distinct (volume, rigidity rank) keys it is the same for every
\* permutation of the item list: same packed entries with the same positions and
\* orientations, same unpacked items, same metrics and warnings.
C29_PermutationInvariant ==
  [](Done =>
       /\ result = packItems(vehicle, items)
       /\ DistinctKeys(items) =>
            \A q \in Rearranged(items) : packItems(vehicle, q) = result)

\* a call on two items of equal volume and different rigidity, given with the more
\* rigid one last and processed in the other order, that packs one and not the other
C29_Witness ==
  /\ Done
  /\ Len(items) = 2
  /\ DistinctKeys(items)
  /\ calculateItemVolume(items[1].dimensions) = calculateItemVolume(items[2].dimensions)
  /\ processedItems = <<WithMetrics(items[2]), WithMetrics(items[1])>>
  /\ Len(result.packedItems) = 1
  /\ Len(result.unpackedItems) = 1

\* C30: whenever at least one accepted packItemsInVehicle call has started and not
\* yet completed, isLoading is true, also when several calls overlap; isLoading
\* becomes false only when no call is in flight.
C30_LoadingWhileInFlight == pending > 0 => isLoading

\* the first of two overlapping calls has completed and reset isLoading while the
\* timer of the second is still waiting
C30_SecondCallNotLoading ==
  /\ pending = 1
  /\ Len(timers) = 1
  /\ pc = "idle"
  /\ packingResult # Null
  /\ ~isLoading

\* without overlap the flag covers the call: with at most one call in flight
\* isLoading is true exactly while the call is in flight
C30_LoadingIffInFlight == pending <= 1 /\ (isLoading <=> pending = 1)

====
